---- MODULE Spec2Model ----
(***************************************************************************)
(* A state-machine model of the capacity-limiter scheduler:               *)
(*   src/src/capacity-limiter.ts      CapacityLimiter                      *)
(*   src/src/release-rule-manager.ts  ReleaseRuleManager                   *)
(*   src/src/fail-recovery-manager.ts FailRecoveryManager                  *)
(*   src/src/calculate-retry-timeout.ts                                    *)
(*   src/unnamed/part_007             DoubleLinkedList                     *)
(*                                                                         *)
(* The engine is single-threaded: every public method, timer callback and  *)
(* promise reaction runs to completion, so each is one action.  Time is a  *)
(* millisecond counter `now`; a timer is the time at which it is due, and  *)
(* time does not advance past a due timer before the timer has fired.      *)
(***************************************************************************)
EXTENDS Integers, Sequences, FiniteSets, TLC

(***************************************************************************)
(* Bounds of the model.                                                    *)
(***************************************************************************)
MaxTasks == 3
MaxTime == 3

(* `undefined` for an optional number; `none` for an optional task.        *)
Undef == -1
NoTask == 0

TaskIds == 1..MaxTasks
Times == 1..MaxTime

(* JavaScript truthiness of an optional number: undefined and 0 are falsy. *)
Truthy(x) == x # Undef /\ x # 0

(* a ?? b                                                                  *)
Coalesce(a, b) == IF a # Undef THEN a ELSE b

Max(a, b) == IF a >= b THEN a ELSE b
Min(a, b) == IF a <= b THEN a ELSE b

(***************************************************************************)
(* Program constants.                                                      *)
(***************************************************************************)
defaultPriority == 5
defaultCapacity == 1
defaultRetriesLimit == 10
maxPriority == 9
defaultMinTimeout == 1000
defaultFactor == 2

(***************************************************************************)
(* DoubleLinkedList, as the sequence of its values from head to tail.      *)
(***************************************************************************)
InsertAt(list, i, v) ==
    \* v becomes the element at position i (1 <= i <= Len(list) + 1).
    SubSeq(list, 1, i - 1) \o <<v>> \o SubSeq(list, i, Len(list))

RemoveAt(list, i) == SubSeq(list, 1, i - 1) \o SubSeq(list, i + 1, Len(list))

IndexOf(list, v) ==
    \* 0 when v is not in the list (map.get(value) is undefined).
    IF \E i \in 1..Len(list) : list[i] = v
    THEN CHOOSE i \in 1..Len(list) : list[i] = v /\ \A j \in 1..(i - 1) : list[j] # v
    ELSE 0

Contains(list, v) == \E i \in 1..Len(list) : list[i] = v

ListSet(list) == {list[i] : i \in 1..Len(list)}

\* The list operations take their condition as hits, the set of the positions
\* whose value matches it.
\* putAfter: after the last value that matches, else at the head.
PutAfter(list, v, hits) ==
    IF hits = {} THEN <<v>> \o list
    ELSE InsertAt(list, (CHOOSE i \in hits : \A j \in hits : j <= i) + 1, v)

\* putBefore: before the first value that matches, else at the tail.
PutBefore(list, v, hits) ==
    IF hits = {} THEN list \o <<v>>
    ELSE InsertAt(list, CHOOSE i \in hits : \A j \in hits : i <= j, v)

Push(list, v) == list \o <<v>>

\* pickFirstMatching: the position of the first value that matches, else 0.
FirstMatching(list, hits) ==
    IF hits = {} THEN 0 ELSE CHOOSE i \in hits : \A j \in hits : i <= j

PeekFirst(list) == IF Len(list) = 0 THEN NoTask ELSE list[1]
PeekLast(list) == IF Len(list) = 0 THEN NoTask ELSE list[Len(list)]

Delete(list, v) == IF IndexOf(list, v) = 0 THEN list ELSE RemoveAt(list, IndexOf(list, v))

(***************************************************************************)
(* Fail recovery strategies.  'none' | 'retry' | {type: 'retry', ...} |    *)
(* {type: 'custom', onFailure}; "unset" is an absent option.               *)
(***************************************************************************)
Strategy(type, retries, minTimeout, maxTimeout, factor, randomize) ==
    [type |-> type, retries |-> retries, minTimeout |-> minTimeout,
     maxTimeout |-> maxTimeout, factor |-> factor, randomize |-> randomize]

StratUnset == Strategy("unset", Undef, Undef, Undef, Undef, FALSE)
StratNone == Strategy("none", Undef, Undef, Undef, Undef, FALSE)
\* the string 'retry', replaced by defaultRetryOptions = {type: 'retry'}
StratRetryAlias == Strategy("retry-alias", Undef, Undef, Undef, Undef, FALSE)
defaultRetryOptions == Strategy("retry", Undef, Undef, Undef, Undef, FALSE)
StratRetryOnce == Strategy("retry", 1, 1, Undef, 1, FALSE)
StratRetryRandom == Strategy("retry", 1, 1, 2, 2, TRUE)
StratCustom == Strategy("custom", Undef, Undef, Undef, Undef, FALSE)

(***************************************************************************)
(* Release rules.  A rule is identified by its object, here by its index   *)
(* in RuleObjects.                                                         *)
(***************************************************************************)
RuleObjects ==
    <<[type |-> "reset", value |-> Undef, interval |-> 2],
      [type |-> "reduce", value |-> 1, interval |-> 1],
      [type |-> "reset", value |-> 2, interval |-> 3],
      [type |-> "reduce", value |-> 1, interval |-> 2]>>

RuleIds == 1..Len(RuleObjects)

NoStatus == [lastApplied |-> Undef, due |-> Undef]

(***************************************************************************)
(* CapacityLimiterOptions, as passed by the caller ("unset" and Undef are  *)
(* absent fields), and the option records the model draws from.            *)
(***************************************************************************)
NoOptions ==
    [maxCapacity |-> Undef, capacityStrategy |-> "unset",
     taskExceedsMaxCapacityStrategy |-> "unset", maxConcurrent |-> Undef,
     maxQueueSize |-> Undef, queueSizeExceededStrategy |-> "unset",
     queueWaitingLimit |-> Undef, queueWaitingTimeout |-> Undef,
     executionTimeout |-> Undef, failRecoveryStrategy |-> StratUnset,
     releaseRules |-> <<>>]

OptionChoices ==
    { [NoOptions EXCEPT !.maxCapacity = 3],
      [NoOptions EXCEPT !.maxCapacity = 2, !.capacityStrategy = "claim",
                        !.releaseRules = <<1>>,
                        !.taskExceedsMaxCapacityStrategy = "wait-for-full-capacity"],
      [NoOptions EXCEPT !.maxConcurrent = 1],
      [NoOptions EXCEPT !.maxCapacity = 3, !.maxConcurrent = 0,
                        !.maxQueueSize = 1, !.queueSizeExceededStrategy = "replace"],
      [NoOptions EXCEPT !.maxCapacity = 3, !.maxQueueSize = 1,
                        !.queueSizeExceededStrategy = "replace-by-priority",
                        !.queueWaitingLimit = 1,
                        !.failRecoveryStrategy = StratRetryOnce],
      [NoOptions EXCEPT !.capacityStrategy = "claim"] }

\* {...defaultOptions, ...options}
defaultOptions(o) ==
    [o EXCEPT
        !.capacityStrategy = IF @ = "unset" THEN "reserve" ELSE @,
        !.taskExceedsMaxCapacityStrategy = IF @ = "unset" THEN "throw-error" ELSE @,
        !.queueSizeExceededStrategy = IF @ = "unset" THEN "throw-error" ELSE @]

(***************************************************************************)
(* Tasks.                                                                  *)
(***************************************************************************)
NoParams ==
    [queueWaitingLimit |-> Undef, queueWaitingTimeout |-> Undef,
     executionTimeout |-> Undef, failRecoveryStrategy |-> StratUnset]

ParamChoices ==
    { NoParams,
      [NoParams EXCEPT !.queueWaitingLimit = 1],
      [NoParams EXCEPT !.queueWaitingTimeout = 2, !.executionTimeout = 1],
      [NoParams EXCEPT !.failRecoveryStrategy = StratCustom] }

CapacityChoices == {1, 2}
PriorityChoices == {1, defaultPriority}

\* A task object.  promise is "pending" or how it was settled; running says
\* that the callback is in flight and its `finished` flag is still false;
\* the three timers hold the time at which they are due; hook holds the
\* error handed to a custom onFailure hook that has not answered yet;
\* invoked counts the calls of task.callback().
NewTask(capacity, priority, params, timeAdded) ==
    [capacity |-> capacity, priority |-> priority, timeAdded |-> timeAdded,
     timeLimit |-> Undef, reservedCapacity |-> 0, reservedConcurrent |-> 0,
     retryAttempt |-> 0, params |-> params, promise |-> "pending", running |-> FALSE,
     invoked |-> 0,
     executionTimerId |-> Undef, queueWaitingTimerId |-> Undef,
     retryTimer |-> Undef, hook |-> "none"]

\* A task id that schedule() has not used yet.
Unused == NewTask(0, 0, NoParams, Undef)

VARIABLES
    now,                      \* Date.now()
    options,                  \* this.options
    usedCapacity,             \* this.usedCapacity
    usedConcurrent,           \* this.usedConcurrent
    queue,                    \* this.queue
    tasksByTimeAdded,         \* this.tasksByTimeAdded
    tasksByTimeLimit,         \* this.tasksByTimeLimit
    executingTasks,           \* this.executingTasks
    tasks,                    \* the task objects, by id
    nextId,                   \* the id the next schedule() call uses
    stopped,                  \* this.stopped: "no", or the state of its stoppedResolve
    stopPromise,              \* the promise the latest stop() returned
    releaseTimers,            \* releaseRuleManager.releaseTimers: rule ids in Map order
    ruleStatus,               \* rule id -> ReleaseRuleStatus
    releaseRuleTimersEnabled, \* releaseRuleManager.releaseRuleTimersEnabled
    betweenTasks,             \* minDelayBetweenTasks, the latest dispatch, the delay timer
    lastRun                   \* the loop's passes in the latest action, with what each saw

vars ==
    <<now, options, usedCapacity, usedConcurrent, queue, tasksByTimeAdded,
      tasksByTimeLimit, executingTasks, tasks, nextId, stopped, stopPromise,
      releaseTimers, ruleStatus, releaseRuleTimersEnabled, betweenTasks, lastRun>>

\* The state as one record, on which the methods below are functions.
State ==
    [now |-> now, options |-> options, usedCapacity |-> usedCapacity,
     usedConcurrent |-> usedConcurrent, queue |-> queue,
     tasksByTimeAdded |-> tasksByTimeAdded, tasksByTimeLimit |-> tasksByTimeLimit,
     executingTasks |-> executingTasks, tasks |-> tasks, nextId |-> nextId,
     stopped |-> stopped, stopPromise |-> stopPromise,
     releaseTimers |-> releaseTimers, ruleStatus |-> ruleStatus,
     releaseRuleTimersEnabled |-> releaseRuleTimersEnabled,
     betweenTasks |-> betweenTasks, lastRun |-> <<>>]

\* A task object that nothing refers to any more (no index, no timer, no
\* callback or hook in flight) is garbage; only its promise, which the caller
\* holds, is kept.
Garbage(s, t) ==
    /\ t < s.nextId
    /\ ~Contains(s.queue, t)
    /\ ~Contains(s.tasksByTimeAdded, t)
    /\ ~Contains(s.tasksByTimeLimit, t)
    /\ t \notin s.executingTasks
    /\ ~s.tasks[t].running
    /\ s.tasks[t].executionTimerId = Undef
    /\ s.tasks[t].queueWaitingTimerId = Undef
    /\ s.tasks[t].retryTimer = Undef
    /\ s.tasks[t].hook = "none"

Collected(s) ==
    [t \in TaskIds |->
        IF Garbage(s, t) THEN [Unused EXCEPT !.promise = s.tasks[t].promise]
        ELSE s.tasks[t]]

\* The promise stop() returns: Promise.all over the promises of the tasks
\* that were executing or awaiting a retry, and over stoppedPromise if the
\* queue was not empty.  awaits holds the tasks whose promises it still
\* waits for.
NoStop == [state |-> "none", awaits |-> {}]

\* Where the promise of stop() stands once the settlements of s have reached
\* it: rejected with the first awaited promise that is rejected, fulfilled
\* when all are fulfilled and stoppedResolve has been called.
Awaited(s) ==
    LET left == {t \in s.stopPromise.awaits : s.tasks[t].promise = "pending"}
    IN  IF s.stopPromise.state # "pending" THEN s.stopPromise
        ELSE IF \E t \in s.stopPromise.awaits :
                    s.tasks[t].promise \notin {"pending", "resolved"}
        THEN [state |-> "rejected", awaits |-> {}]
        ELSE IF left = {} /\ s.stopped # "armed"
        THEN [state |-> "fulfilled", awaits |-> {}]
        ELSE [state |-> "pending", awaits |-> left]

Is(s) ==
    /\ now = s.now
    /\ options = s.options
    /\ usedCapacity = s.usedCapacity
    /\ usedConcurrent = s.usedConcurrent
    /\ queue = s.queue
    /\ tasksByTimeAdded = s.tasksByTimeAdded
    /\ tasksByTimeLimit = s.tasksByTimeLimit
    /\ executingTasks = s.executingTasks
    /\ tasks = s.tasks
    /\ nextId = s.nextId
    /\ stopped = s.stopped
    /\ stopPromise = s.stopPromise
    /\ releaseTimers = s.releaseTimers
    /\ ruleStatus = s.ruleStatus
    /\ releaseRuleTimersEnabled = s.releaseRuleTimersEnabled
    /\ betweenTasks = s.betweenTasks
    /\ lastRun = s.lastRun

Becomes(s) ==
    /\ now' = s.now
    /\ options' = s.options
    /\ usedCapacity' = s.usedCapacity
    /\ usedConcurrent' = s.usedConcurrent
    /\ queue' = s.queue
    /\ tasksByTimeAdded' = s.tasksByTimeAdded
    /\ tasksByTimeLimit' = s.tasksByTimeLimit
    /\ executingTasks' = s.executingTasks
    /\ tasks' = Collected(s)
    /\ nextId' = s.nextId
    /\ stopped' = s.stopped
    /\ stopPromise' = Awaited(s)
    /\ releaseTimers' = s.releaseTimers
    /\ ruleStatus' = s.ruleStatus
    /\ releaseRuleTimersEnabled' = s.releaseRuleTimersEnabled
    /\ betweenTasks' = s.betweenTasks
    /\ lastRun' = s.lastRun

(***************************************************************************)
(* The result channel: the promise made by schedule().  A promise keeps    *)
(* its first settlement; later resolve / reject calls change nothing.      *)
(***************************************************************************)
\* A channel that takes every settlement, the latest replacing the earlier.
SettleOverwrites(s, t, how) ==
    [s EXCEPT !.tasks[t].promise = how]

Settle(s, t, how) ==
    [s EXCEPT !.tasks[t].promise = IF @ = "pending" THEN how ELSE @]

(***************************************************************************)
(* ReleaseRuleManager.                                                     *)
(***************************************************************************)
\* A rule application that counts one interval however many were missed.
applyRuleOnce(s, r, times) ==
    LET rule == RuleObjects[r]
    IN  IF rule.type = "reset"
        THEN [s EXCEPT !.usedCapacity = Coalesce(rule.value, 0)]
        ELSE [s EXCEPT !.usedCapacity = Max(0, s.usedCapacity - rule.value)]

\* The applyRule callback given by the CapacityLimiter constructor.
applyRule(s, r, times) ==
    LET rule == RuleObjects[r]
    IN  IF rule.type = "reset"
        THEN [s EXCEPT !.usedCapacity = Coalesce(rule.value, 0)]
        ELSE [s EXCEPT !.usedCapacity = Max(0, s.usedCapacity - rule.value * times)]

\* The moment of the latest firing a sleeping rule has missed.
CatchUpTime(s, r) ==
    s.now - ((s.now - s.ruleStatus[r].lastApplied) % RuleObjects[r].interval)

Missed(s, r) == s.now - s.ruleStatus[r].lastApplied >= RuleObjects[r].interval

\* First loop of applyMissedRules over rules[i..]: acc is
\* [s, lastResetTime, lastResetTimeRule].
RECURSIVE MissedResets(_, _, _)
MissedResets(acc, rules, i) ==
    IF i > Len(rules) THEN acc
    ELSE LET r == rules[i]
             s == acc.s
             resetTime == CatchUpTime(s, r)
         IN  IF RuleObjects[r].type = "reset" /\ Missed(s, r)
             THEN MissedResets(
                    [s |-> [s EXCEPT !.ruleStatus[r].lastApplied = resetTime],
                     lastResetTime |->
                        IF ~Truthy(acc.lastResetTime) \/ resetTime > acc.lastResetTime
                        THEN resetTime ELSE acc.lastResetTime,
                     lastResetTimeRule |->
                        IF ~Truthy(acc.lastResetTime) \/ resetTime > acc.lastResetTime
                        THEN r ELSE acc.lastResetTimeRule],
                    rules, i + 1)
             ELSE MissedResets(acc, rules, i + 1)

\* Second loop of applyMissedRules over rules[i..].
RECURSIVE MissedReduces(_, _, _, _)
MissedReduces(s, lastResetTime, rules, i) ==
    IF i > Len(rules) THEN s
    ELSE LET r == rules[i]
             lastReduceTime == CatchUpTime(s, r)
             timesApplied ==
                (lastReduceTime - Coalesce(lastResetTime, s.ruleStatus[r].lastApplied))
                    \div RuleObjects[r].interval
             applied == IF s.usedCapacity > 0 THEN applyRule(s, r, timesApplied) ELSE s
         IN  IF RuleObjects[r].type = "reduce" /\ Missed(s, r)
             THEN MissedReduces(
                    [applied EXCEPT !.ruleStatus[r].lastApplied = lastReduceTime],
                    lastResetTime, rules, i + 1)
             ELSE MissedReduces(s, lastResetTime, rules, i + 1)

applyMissedRules(s) ==
    LET resets == MissedResets([s |-> s, lastResetTime |-> Undef, lastResetTimeRule |-> 0],
                               s.releaseTimers, 1)
        afterReset == IF resets.lastResetTimeRule # 0
                      THEN applyRule(resets.s, resets.lastResetTimeRule, 1)
                      ELSE resets.s
    IN  MissedReduces(afterReset, resets.lastResetTime, s.releaseTimers, 1)

\* setRuleTimerWithDelay: an interval, or a timeout that starts the interval;
\* either way the rule next fires `delay` from now.
setRuleTimerWithDelay(s, r, delay) == [s EXCEPT !.ruleStatus[r].due = s.now + delay]

enableTimers(s) ==
    IF s.releaseRuleTimersEnabled THEN s
    ELSE LET missed == applyMissedRules([s EXCEPT !.releaseRuleTimersEnabled = TRUE])
         IN  [missed EXCEPT !.ruleStatus =
                [r \in RuleIds |->
                    IF Contains(missed.releaseTimers, r)
                    THEN [missed.ruleStatus[r] EXCEPT !.due =
                            missed.now + (RuleObjects[r].interval
                                            - (missed.now - missed.ruleStatus[r].lastApplied))]
                    ELSE missed.ruleStatus[r]]]

disableTimers(s) ==
    IF ~s.releaseRuleTimersEnabled THEN s
    ELSE [s EXCEPT !.releaseRuleTimersEnabled = FALSE,
                   !.ruleStatus = [r \in RuleIds |-> [s.ruleStatus[r] EXCEPT !.due = Undef]]]

\* A setRules that leaves the timer of a new rule unarmed.
setRulesUnarmed(s, releaseRules) ==
    LET kept == SelectSeq(s.releaseTimers, LAMBDA r : Contains(releaseRules, r))
        added == SelectSeq(releaseRules, LAMBDA r : ~Contains(s.releaseTimers, r))
    IN  [s EXCEPT
            !.releaseTimers = kept \o added,
            !.ruleStatus =
                [r \in RuleIds |->
                    IF Contains(added, r)
                    THEN [lastApplied |-> s.now, due |-> Undef]
                    ELSE IF Contains(kept, r) THEN s.ruleStatus[r]
                    ELSE NoStatus]]

setRules(s, releaseRules) ==
    LET kept == SelectSeq(s.releaseTimers, LAMBDA r : Contains(releaseRules, r))
        added == SelectSeq(releaseRules, LAMBDA r : ~Contains(s.releaseTimers, r))
    IN  [s EXCEPT
            !.releaseTimers = kept \o added,
            !.ruleStatus =
                [r \in RuleIds |->
                    IF Contains(added, r)
                    THEN [lastApplied |-> s.now,
                          due |-> IF s.releaseRuleTimersEnabled
                                  THEN s.now + RuleObjects[r].interval ELSE Undef]
                    ELSE IF Contains(kept, r) THEN s.ruleStatus[r]
                    ELSE NoStatus]]

(***************************************************************************)
(* CapacityLimiter: the scheduler loop.                                    *)
(***************************************************************************)
canFitTask(s, t) ==
    IF s.options.maxCapacity = Undef THEN TRUE
    ELSE s.usedCapacity + s.tasks[t].capacity <= s.options.maxCapacity

\* this.stopped.stoppedResolve?.()
stoppedResolve(s) == IF s.stopped = "armed" THEN [s EXCEPT !.stopped = "resolved"] ELSE s

\* The task the loop selects, or NoTask: the aged head of tasksByTimeLimit if
\* it fits (nothing if it does not), else the first task of the queue that fits.
importantTask(s) == PeekFirst(s.tasksByTimeLimit)

Aged(s, t) == s.tasks[t].timeLimit # Undef /\ s.tasks[t].timeLimit <= s.now

\* A scan that takes the last task of the queue that fits.
pickLastMatching(s) ==
    LET hits == {i \in 1..Len(s.queue) : canFitTask(s, s.queue[i])}
    IN  IF hits = {} THEN NoTask
        ELSE s.queue[CHOOSE i \in hits : \A j \in hits : j <= i]

pickFirstMatching(s) ==
    LET i == FirstMatching(s.queue,
                           {k \in 1..Len(s.queue) : canFitTask(s, s.queue[k])})
    IN  IF i = 0 THEN NoTask ELSE s.queue[i]

\* The loop returns because the aged head does not fit.
agedHeadBlocks(s) ==
    /\ importantTask(s) # NoTask
    /\ Aged(s, importantTask(s))
    /\ ~canFitTask(s, importantTask(s))

\* A selection that gives an aged head no precedence.
taskToExecuteQueueOnly(s) ==
    IF agedHeadBlocks(s) THEN NoTask ELSE pickFirstMatching(s)

\* A selection that passes over an aged head that does not fit.
taskToExecuteSkipping(s) ==
    IF importantTask(s) # NoTask /\ Aged(s, importantTask(s))
            /\ canFitTask(s, importantTask(s))
    THEN importantTask(s)
    ELSE pickFirstMatching(s)

taskToExecute(s) ==
    IF importantTask(s) # NoTask /\ Aged(s, importantTask(s))
    THEN IF canFitTask(s, importantTask(s)) THEN importantTask(s) ELSE NoTask
    ELSE pickFirstMatching(s)

\* A dispatch that leaves the task's queue waiting timer running.
reserveKeepingTimer(s, t) ==
    LET cap == IF s.options.maxCapacity # Undef
               THEN [s EXCEPT
                        !.tasks[t].reservedCapacity =
                            IF s.options.capacityStrategy = "reserve"
                            THEN s.tasks[t].capacity ELSE @,
                        !.usedCapacity = @ + s.tasks[t].capacity]
               ELSE s
    IN  [cap EXCEPT !.tasks[t].reservedConcurrent = 1,
                    !.usedConcurrent = @ + 1]

\* The capacity and concurrency a dispatch takes.
reserve(s, t) ==
    LET cap == IF s.options.maxCapacity # Undef
               THEN [s EXCEPT
                        !.tasks[t].reservedCapacity =
                            IF s.options.capacityStrategy = "reserve"
                            THEN s.tasks[t].capacity ELSE @,
                        !.usedCapacity = @ + s.tasks[t].capacity]
               ELSE s
    IN  [cap EXCEPT !.tasks[t].queueWaitingTimerId = Undef,
                    !.tasks[t].reservedConcurrent = 1,
                    !.usedConcurrent = @ + 1]

\* A dispatch that takes the head of the queue out, whichever task starts.
removeDispatchedHead(s, t) ==
    [s EXCEPT !.queue = Tail(@),
              !.tasksByTimeAdded = Delete(@, Head(s.queue)),
              !.tasksByTimeLimit = Delete(@, Head(s.queue))]

\* A dispatch that leaves the task in tasksByTimeLimit.
removeDispatchedKeepingLimit(s, t) ==
    [s EXCEPT !.queue = Delete(@, t),
              !.tasksByTimeAdded = Delete(@, t)]

removeDispatched(s, t) ==
    [s EXCEPT !.queue = Delete(@, t),
              !.tasksByTimeAdded = Delete(@, t),
              !.tasksByTimeLimit = IF Truthy(s.tasks[t].timeLimit) THEN Delete(@, t) ELSE @]

\* executeTask, up to the call of the callback: the callback stays in flight.
executeTask(s, t) ==
    LET executionTimeout ==
            Coalesce(s.tasks[t].params.executionTimeout, s.options.executionTimeout)
    IN  [s EXCEPT !.executingTasks = @ \cup {t},
                  !.tasks[t].executionTimerId =
                        IF Truthy(executionTimeout) THEN s.now + executionTimeout ELSE @,
                  !.tasks[t].invoked = @ + 1,
                  !.tasks[t].running = TRUE]

\* What a pass of the loop saw when it dispatched task t, or (t = NoTask)
\* when it returned at the concurrency limit or at an aged head that does not
\* fit.
Seen(s, t) ==
    [task |-> t, queue |-> s.queue, tasksByTimeLimit |-> s.tasksByTimeLimit,
     usedCapacity |-> s.usedCapacity, usedConcurrent |-> s.usedConcurrent]

(***************************************************************************)
(* minDelayBetweenTasks.  This source of capacity-limiter.ts has no such   *)
(* option (its tests do); the four definitions that follow are taken from  *)
(* the specification: "enforces a minimum wall-time gap between successive *)
(* dispatches".  With no delay set they change nothing.                    *)
(***************************************************************************)
NoDelay == [minDelayBetweenTasks |-> Undef, lastTaskAt |-> Undef, timer |-> Undef]

\* A gap that counts a dispatch as late enough one unit before it is.
tooSoonByOne(s) ==
    /\ Truthy(s.betweenTasks.minDelayBetweenTasks)
    /\ s.betweenTasks.lastTaskAt # Undef
    /\ s.now - s.betweenTasks.lastTaskAt < s.betweenTasks.minDelayBetweenTasks - 1

\* The latest dispatch is less than minDelayBetweenTasks ago.
tooSoon(s) ==
    /\ Truthy(s.betweenTasks.minDelayBetweenTasks)
    /\ s.betweenTasks.lastTaskAt # Undef
    /\ s.now - s.betweenTasks.lastTaskAt < s.betweenTasks.minDelayBetweenTasks

\* The loop is run again when the gap has passed.
waitForDelay(s) ==
    IF Len(s.queue) = 0 THEN s
    ELSE [s EXCEPT !.betweenTasks.timer =
                s.betweenTasks.lastTaskAt + s.betweenTasks.minDelayBetweenTasks]

\* A dispatch is noted as the latest.
taskStarted(s) ==
    IF Truthy(s.betweenTasks.minDelayBetweenTasks)
    THEN [s EXCEPT !.betweenTasks.lastTaskAt = s.now]
    ELSE s

\* startNextTaskIfPossible, with the gap of minDelayBetweenTasks (tooSoon,
\* waitForDelay, taskStarted) as the specification adds it.
RECURSIVE startNextTaskIfPossible(_)
startNextTaskIfPossible(s) ==
    IF s.stopped # "no" /\ Len(s.queue) = 0 THEN stoppedResolve(s)
    ELSE IF Truthy(s.options.maxConcurrent) /\ s.usedConcurrent >= s.options.maxConcurrent
    THEN [s EXCEPT !.lastRun = Append(@, Seen(s, NoTask))]
    ELSE IF tooSoon(s) THEN waitForDelay(s)
    ELSE LET t == taskToExecute(s)
         IN  IF t = NoTask
             THEN IF agedHeadBlocks(s)
                  THEN [s EXCEPT !.lastRun = Append(@, Seen(s, NoTask))]
                  ELSE s
             ELSE LET started ==
                        executeTask(
                            removeDispatched(reserve(s, t), t), t)
                      logged == taskStarted(
                                    [started EXCEPT !.lastRun = Append(@, Seen(s, t))])
                  IN  IF Len(logged.queue) = 0 THEN disableTimers(logged)
                      ELSE startNextTaskIfPossible(logged)

\* A release that takes the reservation off usedCapacity without stopping
\* at 0.
releaseTaskResourcesUnclamped(s, t) ==
    LET task == s.tasks[t]
    IN  [s EXCEPT
            !.tasks[t].timeLimit = Undef,
            !.usedConcurrent = @ - task.reservedConcurrent,
            !.tasks[t].reservedConcurrent = 0,
            !.usedCapacity = @ - task.reservedCapacity,
            !.tasks[t].reservedCapacity = 0,
            !.tasks[t].executionTimerId = Undef]

\* A release that takes the task's capacity off usedCapacity whether or not
\* the task reserved it.
releaseTaskResourcesByCapacity(s, t) ==
    LET task == s.tasks[t]
    IN  [s EXCEPT
            !.tasks[t].timeLimit = Undef,
            !.usedConcurrent = Max(0, @ - task.reservedConcurrent),
            !.tasks[t].reservedConcurrent = 0,
            !.usedCapacity =
                IF s.options.maxCapacity # Undef THEN Max(0, @ - task.capacity) ELSE @,
            !.tasks[t].reservedCapacity = 0,
            !.tasks[t].executionTimerId = Undef]

\* releaseTaskResources
releaseTaskResources(s, t) ==
    LET task == s.tasks[t]
        releaseCapacity == Truthy(task.reservedCapacity) /\ s.options.maxCapacity # Undef
    IN  [s EXCEPT
            !.tasks[t].timeLimit = Undef,
            !.usedConcurrent =
                IF Truthy(task.reservedConcurrent)
                THEN Max(0, @ - task.reservedConcurrent) ELSE @,
            !.tasks[t].reservedConcurrent = 0,
            !.usedCapacity =
                IF releaseCapacity THEN Max(0, @ - task.reservedCapacity) ELSE @,
            !.tasks[t].reservedCapacity = IF releaseCapacity THEN 0 ELSE @,
            !.tasks[t].executionTimerId = Undef]

removeTaskFromQueues(s, t) ==
    [s EXCEPT !.queue = Delete(@, t),
              !.tasksByTimeAdded = Delete(@, t),
              !.tasksByTimeLimit = Delete(@, t)]

resolveTask(s, t) ==
    startNextTaskIfPossible(Settle(releaseTaskResources(s, t), t, "resolved"))

(***************************************************************************)
(* Failure recovery.                                                       *)
(***************************************************************************)
RECURSIVE Pow(_, _)
Pow(b, e) == IF e <= 0 THEN 1 ELSE b * Pow(b, e - 1)

\* Math.random() + 1 is one of (RandomDen + k) / RandomDen, k in 0..RandomDen-1.
RandomDen == 2

\* calculateRetryTimeout, with Math.round as round-half-up; rnd is k above
\* (0 when randomize is off).
calculateRetryTimeout(attempt, strategy, rnd) ==
    LET factor == Coalesce(strategy.factor, defaultFactor)
        minTimeout == Coalesce(strategy.minTimeout, defaultMinTimeout)
        k == IF strategy.randomize THEN rnd ELSE 0
        exact2 == 2 * (RandomDen + k) * Max(minTimeout, 1) * Pow(factor, attempt - 1)
        timeout == (exact2 + RandomDen) \div (2 * RandomDen)
    IN  IF strategy.maxTimeout = Undef THEN timeout ELSE Min(timeout, strategy.maxTimeout)

\* task.params.failRecoveryStrategy ?? this.options.failRecoveryStrategy
failRecoveryStrategy(s, t) ==
    IF s.tasks[t].params.failRecoveryStrategy.type # "unset"
    THEN s.tasks[t].params.failRecoveryStrategy
    ELSE s.options.failRecoveryStrategy

\* setRetryTimer, with onScheduledRetry
setRetryTimer(s, t, timeout) ==
    [s EXCEPT !.tasks[t].timeLimit = s.now + timeout,
              !.tasks[t].retryTimer = s.now + timeout]

\* A strategy that gives up once the failures reach the retries limit.
useStrategyInclusive(s, t, strategy, error, rnd) ==
    IF strategy.type = "retry"
    THEN IF s.tasks[t].retryAttempt >= Coalesce(strategy.retries, defaultRetriesLimit)
         THEN Settle(s, t, error)
         ELSE setRetryTimer(s, t,
                calculateRetryTimeout(s.tasks[t].retryAttempt, strategy, rnd))
    ELSE [s EXCEPT !.tasks[t].hook = error]

\* useStrategy; error is what the attempt failed with
useStrategy(s, t, strategy, error, rnd) ==
    IF strategy.type = "retry"
    THEN IF s.tasks[t].retryAttempt > Coalesce(strategy.retries, defaultRetriesLimit)
         THEN Settle(s, t, error)
         ELSE setRetryTimer(s, t,
                calculateRetryTimeout(s.tasks[t].retryAttempt, strategy, rnd))
    ELSE [s EXCEPT !.tasks[t].hook = error]

tryRejectTask(s, t, error, rnd) ==
    LET released == releaseTaskResources(s, t)
        strategy == failRecoveryStrategy(released, t)
        handled ==
            IF strategy.type # "unset" /\ strategy.type # "none"
            THEN useStrategy([released EXCEPT !.tasks[t].retryAttempt = @ + 1], t,
                             IF strategy.type = "retry-alias"
                             THEN defaultRetryOptions ELSE strategy,
                             error, rnd)
            ELSE Settle(released, t, error)
    IN  startNextTaskIfPossible(handled)

(***************************************************************************)
(* Admission.  scheduleTask returns the state it leaves and what it threw. *)
(***************************************************************************)
Returns(s) == [s |-> s, thrown |-> "none"]
Throws(s, type) == [s |-> s, thrown |-> type]

\* An overflow branch whose replace evicts the newest pending task.
queueSizeExceededNewest(s, t) ==
    LET strategy == s.options.queueSizeExceededStrategy
        leastPriorityTask == PeekLast(s.queue)
        newestTask == PeekLast(s.tasksByTimeAdded)
    IN  IF strategy = "throw-error"
        THEN [s |-> Settle(s, t, "queue-size-exceeded"), insert |-> FALSE]
        ELSE IF strategy = "replace-by-priority"
        THEN IF leastPriorityTask # NoTask
                /\ s.tasks[leastPriorityTask].priority > s.tasks[t].priority
             THEN [s |-> Settle(removeTaskFromQueues(s, leastPriorityTask),
                                leastPriorityTask, "queue-size-exceeded"),
                   insert |-> TRUE]
             ELSE [s |-> Settle(s, t, "queue-size-exceeded"), insert |-> FALSE]
        ELSE IF newestTask # NoTask
             THEN [s |-> Settle(removeTaskFromQueues(s, newestTask),
                                newestTask, "queue-size-exceeded"),
                   insert |-> TRUE]
             ELSE [s |-> s, insert |-> TRUE]

\* An overflow branch whose replace-by-priority also evicts a task of the
\* newcomer's own priority.
queueSizeExceededEqual(s, t) ==
    LET strategy == s.options.queueSizeExceededStrategy
        leastPriorityTask == PeekLast(s.queue)
        oldestTask == PeekFirst(s.tasksByTimeAdded)
    IN  IF strategy = "throw-error"
        THEN [s |-> Settle(s, t, "queue-size-exceeded"), insert |-> FALSE]
        ELSE IF strategy = "replace-by-priority"
        THEN IF leastPriorityTask # NoTask
                /\ s.tasks[leastPriorityTask].priority >= s.tasks[t].priority
             THEN [s |-> Settle(removeTaskFromQueues(s, leastPriorityTask),
                                leastPriorityTask, "queue-size-exceeded"),
                   insert |-> TRUE]
             ELSE [s |-> Settle(s, t, "queue-size-exceeded"), insert |-> FALSE]
        ELSE IF oldestTask # NoTask
             THEN [s |-> Settle(removeTaskFromQueues(s, oldestTask),
                                oldestTask, "queue-size-exceeded"),
                   insert |-> TRUE]
             ELSE [s |-> s, insert |-> TRUE]

\* The queue-overflow branch: the state after it and whether the newcomer
\* goes on to be inserted.
queueSizeExceeded(s, t) ==
    LET strategy == s.options.queueSizeExceededStrategy
        leastPriorityTask == PeekLast(s.queue)
        oldestTask == PeekFirst(s.tasksByTimeAdded)
    IN  IF strategy = "throw-error"
        THEN [s |-> Settle(s, t, "queue-size-exceeded"), insert |-> FALSE]
        ELSE IF strategy = "replace-by-priority"
        THEN IF leastPriorityTask # NoTask
                /\ s.tasks[leastPriorityTask].priority > s.tasks[t].priority
             THEN [s |-> Settle(removeTaskFromQueues(s, leastPriorityTask),
                                leastPriorityTask, "queue-size-exceeded"),
                   insert |-> TRUE]
             ELSE [s |-> Settle(s, t, "queue-size-exceeded"), insert |-> FALSE]
        ELSE \* replace
             IF oldestTask # NoTask
             THEN [s |-> Settle(removeTaskFromQueues(s, oldestTask),
                                oldestTask, "queue-size-exceeded"),
                   insert |-> TRUE]
             ELSE [s |-> s, insert |-> TRUE]

\* An insertion that puts the task ahead of the queued tasks of its priority.
queuePutAhead(s, t) ==
    PutAfter(s.queue, t,
             {i \in 1..Len(s.queue) : s.tasks[s.queue[i]].priority < s.tasks[t].priority})

\* this.queue.putAfter(task, ({priority}) => priority <= task.priority)
queuePut(s, t) ==
    PutAfter(s.queue, t,
             {i \in 1..Len(s.queue) : s.tasks[s.queue[i]].priority <= s.tasks[t].priority})

\* this.tasksByTimeLimit.putBefore(task, ({timeLimit}) => task.timeLimit < timeLimit)
timeLimitPut(s, t) ==
    PutBefore(s.tasksByTimeLimit, t,
              {i \in 1..Len(s.tasksByTimeLimit) :
                    s.tasks[t].timeLimit < s.tasks[s.tasksByTimeLimit[i]].timeLimit})

\* From the insertion into the queue to the end of scheduleTask.
insertTask(s, t) ==
    LET queueWaitingLimit ==
            Coalesce(s.tasks[t].params.queueWaitingLimit, s.options.queueWaitingLimit)
        queueWaitingTimeout ==
            Coalesce(s.tasks[t].params.queueWaitingTimeout, s.options.queueWaitingTimeout)
        queued == [s EXCEPT !.queue = queuePut(s, t),
                            !.tasksByTimeAdded = Push(@, t)]
        limited ==
            IF Truthy(queueWaitingLimit) /\ ~Truthy(queued.tasks[t].timeLimit)
            THEN [queued EXCEPT !.tasks[t].timeLimit =
                                    queued.tasks[t].timeAdded + queueWaitingLimit]
            ELSE queued
        indexed ==
            IF Truthy(limited.tasks[t].timeLimit)
            THEN [limited EXCEPT !.tasksByTimeLimit = timeLimitPut(limited, t)]
            ELSE limited
        timed ==
            IF Truthy(queueWaitingTimeout) /\ ~Truthy(indexed.tasks[t].retryAttempt)
            THEN [indexed EXCEPT !.tasks[t].queueWaitingTimerId =
                                    indexed.now + queueWaitingTimeout]
            ELSE indexed
    IN  startNextTaskIfPossible(enableTimers(timed))

\* An admission that does not look at the stopped flag.
scheduleTaskWhenStopped(s, t) ==
    LET task == s.tasks[t]
        maxCapacity == s.options.maxCapacity
        exceeds == maxCapacity # Undef /\ task.capacity > maxCapacity
        clamped == IF exceeds THEN [s EXCEPT !.tasks[t].capacity = maxCapacity] ELSE s
        full == Truthy(s.options.maxQueueSize)
                    /\ Len(s.queue) >= s.options.maxQueueSize
        overflow == queueSizeExceeded(clamped, t)
    IN  IF exceeds /\ s.options.taskExceedsMaxCapacityStrategy = "throw-error"
        THEN Throws(s, "max-capacity-exceeded")
        ELSE IF clamped.tasks[t].capacity < 0 THEN Throws(clamped, "invalid-argument")
        ELSE IF task.priority < 0 \/ task.priority > maxPriority
        THEN Throws(clamped, "invalid-argument")
        ELSE IF full
        THEN IF overflow.insert THEN Returns(insertTask(overflow.s, t))
             ELSE Returns(overflow.s)
        ELSE Returns(insertTask(clamped, t))

scheduleTask(s, t) ==
    LET task == s.tasks[t]
        maxCapacity == s.options.maxCapacity
        exceeds == maxCapacity # Undef /\ task.capacity > maxCapacity
        clamped == IF exceeds THEN [s EXCEPT !.tasks[t].capacity = maxCapacity] ELSE s
        full == Truthy(s.options.maxQueueSize)
                    /\ Len(s.queue) >= s.options.maxQueueSize
        overflow == queueSizeExceeded(clamped, t)
    IN  IF s.stopped # "no" THEN Returns(Settle(s, t, "stopped"))
        ELSE IF exceeds /\ s.options.taskExceedsMaxCapacityStrategy = "throw-error"
        THEN Throws(s, "max-capacity-exceeded")
        ELSE IF clamped.tasks[t].capacity < 0 THEN Throws(clamped, "invalid-argument")
        ELSE IF task.priority < 0 \/ task.priority > maxPriority
        THEN Throws(clamped, "invalid-argument")
        ELSE IF full
        THEN IF overflow.insert THEN Returns(insertTask(overflow.s, t))
             ELSE Returns(overflow.s)
        ELSE Returns(insertTask(clamped, t))

(***************************************************************************)
(* Validation.                                                             *)
(***************************************************************************)
\* checkMaxCapacity, checkCapacityStrategy, checkReleaseRules: what they throw.
checkOptions(o) ==
    IF o.maxCapacity # Undef /\ o.maxCapacity < 0 THEN "invalid-argument"
    ELSE IF o.capacityStrategy # "unset" /\ o.maxCapacity = Undef THEN "invalid-argument"
    ELSE IF Len(o.releaseRules) > 0 /\ o.maxCapacity = Undef THEN "invalid-argument"
    ELSE "none"

checkUsedCapacity(used, maxCapacity) ==
    IF used = Undef THEN "none"
    ELSE IF maxCapacity = Undef THEN "invalid-call"
    ELSE IF used < 0 THEN "invalid-argument"
    ELSE IF used > maxCapacity THEN "invalid-argument"
    ELSE "none"

(***************************************************************************)
(* The state after `new CapacityLimiter(o)` with initiallyUsedCapacity.    *)
(***************************************************************************)
InitiallyUsedChoices == {Undef, 1}

Constructed(o, initiallyUsedCapacity) ==
    setRules(
        [now |-> 1, options |-> defaultOptions(o),
         usedCapacity |-> Coalesce(initiallyUsedCapacity, 0), usedConcurrent |-> 0,
         queue |-> <<>>, tasksByTimeAdded |-> <<>>, tasksByTimeLimit |-> <<>>,
         executingTasks |-> {}, tasks |-> [t \in TaskIds |-> Unused], nextId |-> 1,
         stopped |-> "no", stopPromise |-> NoStop, releaseTimers |-> <<>>,
         ruleStatus |-> [r \in RuleIds |-> NoStatus],
         releaseRuleTimersEnabled |-> FALSE, betweenTasks |-> NoDelay,
         lastRun |-> <<>>],
        o.releaseRules)

\* The constructor accepts the options and the initially used capacity.
Constructs(o, used) ==
    checkOptions(o) = "none" /\ checkUsedCapacity(used, o.maxCapacity) = "none"

InitWith(Options, InitiallyUsed) ==
    \E o \in Options, used \in InitiallyUsed :
        Constructs(o, used) /\ Is(Constructed(o, used))

Init == InitWith(OptionChoices, InitiallyUsedChoices)

(***************************************************************************)
(* Actions: one per public method, timer callback and promise reaction.    *)
(***************************************************************************)
\* A call that throws at its caller before it has changed anything.
Thrown(type) == type # "none" /\ UNCHANGED vars

\* schedule(params): a task object, then scheduleTask.
Schedule(capacity, priority, params) ==
    /\ nextId <= MaxTasks
    /\ LET t == nextId
           created == [State EXCEPT !.tasks[t] = NewTask(capacity, priority, params, now),
                                    !.nextId = @ + 1]
           result == scheduleTask(created, t)
       IN  IF result.thrown # "none" THEN Thrown(result.thrown)
           ELSE Becomes(result.s)

\* The values Math.random() may take for the task's strategy.
RandomChoices(t) ==
    IF failRecoveryStrategy(State, t).randomize THEN 0..(RandomDen - 1) ELSE {0}

\* task.callback() resolves.
CallbackResolves(t) ==
    /\ tasks[t].running
    /\ Becomes(resolveTask([State EXCEPT !.executingTasks = @ \ {t},
                                         !.tasks[t].running = FALSE], t))

\* task.callback() rejects.
CallbackRejects(t) ==
    /\ tasks[t].running
    /\ \E rnd \in RandomChoices(t) :
        Becomes(tryRejectTask([State EXCEPT !.executingTasks = @ \ {t},
                                            !.tasks[t].running = FALSE],
                              t, "task-error", rnd))

\* The execution timer of executeTask fires.
ExecutionTimerFires(t) ==
    /\ tasks[t].executionTimerId # Undef
    /\ tasks[t].executionTimerId <= now
    /\ \E rnd \in RandomChoices(t) :
        IF tasks[t].running
        THEN Becomes(tryRejectTask([State EXCEPT !.executingTasks = @ \ {t},
                                                 !.tasks[t].running = FALSE],
                                   t, "execution-timeout", rnd))
        ELSE Becomes([State EXCEPT !.tasks[t].executionTimerId = Undef])

\* A callback that settles after its execution has finished and is handled
\* as if it had not.
LateOutcomeActs(t) ==
    /\ t < nextId
    /\ Becomes(resolveTask([State EXCEPT !.executingTasks = @ \ {t},
                                         !.tasks[t].running = FALSE], t))

\* A callback of task t settles after the execution timer has ended its
\* execution: `finished` is true and the handler does nothing.  The work in
\* flight is not part of the limiter's state, so any task that was created
\* may have such a callback out, also while a later execution of it runs.
LateOutcome(t) ==
    /\ t < nextId
    /\ UNCHANGED vars

\* The queue waiting timer of scheduleTask fires.
QueueTimerFires(t) ==
    /\ tasks[t].queueWaitingTimerId # Undef
    /\ tasks[t].queueWaitingTimerId <= now
    /\ Becomes(Settle(removeTaskFromQueues(
                        [State EXCEPT !.tasks[t].queueWaitingTimerId = Undef], t),
                      t, "queue-timeout"))

\* The retry timer of setRetryTimer fires: onRetry is scheduleTask(task).  What
\* scheduleTask throws there is thrown out of the timer callback.
RetryTimerFires(t) ==
    /\ tasks[t].retryTimer # Undef
    /\ tasks[t].retryTimer <= now
    /\ LET result == scheduleTask([State EXCEPT !.tasks[t].retryTimer = Undef], t)
       IN  Becomes(result.s)

\* The custom onFailure hook answers: {type: 'retry', timeout}, or
\* {type: 'throw-error', error}, or it throws.
HookTimeoutChoices == {1}

HookAnswers(t, answer, timeout) ==
    /\ tasks[t].hook # "none"
    /\ LET answered == [State EXCEPT !.tasks[t].hook = "none"]
       IN  Becomes(
            IF answer = "retry" THEN setRetryTimer(answered, t, timeout)
            ELSE IF answer = "throw-error" THEN Settle(answered, t, "hook-error")
            ELSE Settle(answered, t, "on-failure-error"))

\* A release rule's timer fires: applyRuleByInterval.
ReleaseTimerFires(r) ==
    /\ ruleStatus[r].due # Undef
    /\ ruleStatus[r].due <= now
    /\ Becomes(startNextTaskIfPossible(
                applyRule([State EXCEPT !.ruleStatus[r].due = now + RuleObjects[r].interval,
                                        !.ruleStatus[r].lastApplied = now],
                          r, 1)))

\* The timer of minDelayBetweenTasks: the gap has passed, the loop runs.
DelayTimerFires ==
    /\ betweenTasks.timer # Undef
    /\ betweenTasks.timer <= now
    /\ Becomes(startNextTaskIfPossible([State EXCEPT !.betweenTasks.timer = Undef]))

GetUsedCapacity ==
    /\ TRUE
    /\ Becomes(IF ~releaseRuleTimersEnabled THEN applyMissedRules(State) ELSE State)

SetUsedCapacity(n) ==
    IF checkUsedCapacity(n, options.maxCapacity) # "none"
    THEN Thrown(checkUsedCapacity(n, options.maxCapacity))
    ELSE Becomes(startNextTaskIfPossible([State EXCEPT !.usedCapacity = n]))

AdjustUsedCapacity(diff) ==
    IF options.maxCapacity = Undef THEN Thrown("invalid-call")
    ELSE Becomes(startNextTaskIfPossible(
            [State EXCEPT !.usedCapacity =
                Min(Max(0, usedCapacity + diff), options.maxCapacity)]))

SetOptions(o) ==
    IF checkOptions(o) # "none" THEN Thrown(checkOptions(o))
    ELSE Becomes(setRules([State EXCEPT !.options = defaultOptions(o)], o.releaseRules))

\* failRecoveryManager.rejectAll(error) over the tasks in ts
RECURSIVE SettleAll(_, _, _)
SettleAll(s, ts, how) ==
    IF ts = {} THEN s
    ELSE LET t == CHOOSE x \in ts : TRUE
         IN  SettleAll(Settle(s, t, how), ts \ {t}, how)

AwaitingTasks(s) == {t \in TaskIds : s.tasks[t].retryTimer # Undef}

rejectAll(s) ==
    LET rejected == SettleAll(s, AwaitingTasks(s), "stopped")
    IN  [rejected EXCEPT !.tasks =
            [t \in TaskIds |-> [rejected.tasks[t] EXCEPT !.retryTimer = Undef]]]

StopParams == [stopWaitingTasks : BOOLEAN, rejectExecutingTasks : BOOLEAN,
               stopTaskRetries : BOOLEAN]

Stop(params) ==
    LET inBlock == params.stopWaitingTasks \/ params.rejectExecutingTasks
                        \/ params.stopWaitingTasks
        waiting ==
            IF inBlock /\ params.stopWaitingTasks
            THEN [SettleAll(State, ListSet(queue), "stopped") EXCEPT
                    !.queue = <<>>, !.tasksByTimeAdded = <<>>, !.tasksByTimeLimit = <<>>]
            ELSE State
        executing ==
            IF inBlock /\ params.rejectExecutingTasks
            THEN [SettleAll(waiting, waiting.executingTasks, "stopped") EXCEPT
                    !.executingTasks = {}]
            ELSE waiting
        retries ==
            IF inBlock /\ params.stopTaskRetries THEN rejectAll(executing) ELSE executing
        marked ==
            [retries EXCEPT
                !.stopped = "stopped",
                !.stopPromise =
                    [state |-> "pending",
                     awaits |-> retries.executingTasks \cup AwaitingTasks(retries)]]
    IN  /\ params \in StopParams
        /\ Becomes(IF Len(marked.queue) > 0
                   THEN startNextTaskIfPossible([marked EXCEPT !.stopped = "armed"])
                   ELSE marked)

\* A millisecond passes; every timer that is due has fired.
TimersDue ==
    \/ \E t \in TaskIds :
        \/ tasks[t].executionTimerId # Undef /\ tasks[t].executionTimerId <= now
        \/ tasks[t].queueWaitingTimerId # Undef /\ tasks[t].queueWaitingTimerId <= now
        \/ tasks[t].retryTimer # Undef /\ tasks[t].retryTimer <= now
    \/ \E r \in RuleIds : ruleStatus[r].due # Undef /\ ruleStatus[r].due <= now
    \/ betweenTasks.timer # Undef /\ betweenTasks.timer <= now

Tick ==
    /\ now < MaxTime
    /\ ~TimersDue
    /\ Becomes([State EXCEPT !.now = @ + 1])

HookAnswerChoices == {"retry", "throw-error", "throws"}
UsedChoices == 0..3
DiffChoices == {-1, 1}

\* The whole machine: every step the program can take, the callers' inputs
\* drawn from the sets above.  The scenarios that follow are this machine
\* with the inputs narrowed to one concern each, so that their reachable
\* states can be enumerated.
Next ==
    \/ \E capacity \in CapacityChoices, priority \in PriorityChoices,
          params \in ParamChoices : Schedule(capacity, priority, params)
    \/ \E t \in TaskIds : CallbackResolves(t)
    \/ \E t \in TaskIds : CallbackRejects(t)
    \/ \E t \in TaskIds : ExecutionTimerFires(t)
    \/ \E t \in TaskIds : QueueTimerFires(t)
    \/ \E t \in TaskIds : RetryTimerFires(t)
    \/ \E t \in TaskIds, answer \in HookAnswerChoices, timeout \in HookTimeoutChoices :
        HookAnswers(t, answer, timeout)
    \/ \E r \in RuleIds : ReleaseTimerFires(r)
    \/ DelayTimerFires
    \/ GetUsedCapacity
    \/ \E n \in UsedChoices : SetUsedCapacity(n)
    \/ \E diff \in DiffChoices : AdjustUsedCapacity(diff)
    \/ \E o \in OptionChoices : SetOptions(o)
    \/ \E params \in StopParams : Stop(params)
    \/ Tick

Spec == Init /\ [][Next]_vars

\* The number of tasks admitted in the scenarios below that need no more.
FewTasks == 2

(***************************************************************************)
(* Capacity accounting: the machine without failure recovery, reconfigured *)
(* between the strategies and between two capacities.                      *)
(***************************************************************************)
CapacityOptions ==
    { [NoOptions EXCEPT !.maxCapacity = 2],
      [NoOptions EXCEPT !.maxCapacity = 1],
      [NoOptions EXCEPT !.maxCapacity = 2, !.capacityStrategy = "claim",
                        !.releaseRules = <<1, 2>>],
      NoOptions }

CapacityParams ==
    { NoParams,
      [NoParams EXCEPT !.executionTimeout = 1],
      [NoParams EXCEPT !.queueWaitingTimeout = 1] }

CapacityStops ==
    { [stopWaitingTasks |-> FALSE, rejectExecutingTasks |-> FALSE, stopTaskRetries |-> FALSE],
      [stopWaitingTasks |-> TRUE, rejectExecutingTasks |-> TRUE, stopTaskRetries |-> TRUE] }

NextCapacity ==
    \/ \E capacity \in CapacityChoices, params \in CapacityParams :
        nextId <= FewTasks /\ Schedule(capacity, defaultPriority, params)
    \/ \E t \in TaskIds : CallbackResolves(t)
    \/ \E t \in TaskIds : CallbackRejects(t)
    \/ \E t \in TaskIds : ExecutionTimerFires(t)
    \/ \E t \in TaskIds : QueueTimerFires(t)
    \/ \E r \in RuleIds : ReleaseTimerFires(r)
    \/ GetUsedCapacity
    \/ \E n \in 0..2 : SetUsedCapacity(n)
    \/ \E diff \in DiffChoices : AdjustUsedCapacity(diff)
    \/ \E o \in CapacityOptions : SetOptions(o)
    \/ \E params \in CapacityStops : Stop(params)
    \/ Tick

SpecCapacity == InitWith(CapacityOptions, {Undef}) /\ [][NextCapacity]_vars

(***************************************************************************)
(* Concurrency: limiters that bound only the number of executing tasks,    *)
(* with every maxConcurrent the constructor accepts up to 2.               *)
(***************************************************************************)
ConcurrentOptions ==
    { [NoOptions EXCEPT !.maxConcurrent = n] : n \in 0..2 }

ConcurrentParams ==
    { NoParams, [NoParams EXCEPT !.executionTimeout = 1] }

NextConcurrent ==
    \/ \E params \in ConcurrentParams :
        Schedule(defaultCapacity, defaultPriority, params)
    \/ \E t \in TaskIds : CallbackResolves(t)
    \/ \E t \in TaskIds : CallbackRejects(t)
    \/ \E t \in TaskIds : ExecutionTimerFires(t)
    \/ \E params \in CapacityStops : Stop(params)
    \/ Tick

SpecConcurrent == InitWith(ConcurrentOptions, {Undef}) /\ [][NextConcurrent]_vars

(***************************************************************************)
(* Settlement: a limiter with a one-place queue that replaces on overflow  *)
(* and retries once, reconfigured to a smaller capacity, its tasks with    *)
(* timeouts and custom failure hooks, stopped in every way.                *)
(***************************************************************************)
SettleOptions ==
    { [NoOptions EXCEPT !.maxCapacity = 2, !.maxQueueSize = 1,
                        !.queueSizeExceededStrategy = "replace",
                        !.failRecoveryStrategy = StratRetryOnce],
      [NoOptions EXCEPT !.maxCapacity = 1, !.maxQueueSize = 1,
                        !.queueSizeExceededStrategy = "replace",
                        !.failRecoveryStrategy = StratRetryOnce] }

SettleParams ==
    { NoParams,
      [NoParams EXCEPT !.queueWaitingTimeout = 1, !.executionTimeout = 1],
      [NoParams EXCEPT !.failRecoveryStrategy = StratCustom] }

NextSettle ==
    \/ \E capacity \in CapacityChoices, params \in SettleParams :
        nextId <= FewTasks /\ Schedule(capacity, defaultPriority, params)
    \/ \E t \in TaskIds : CallbackResolves(t)
    \/ \E t \in TaskIds : CallbackRejects(t)
    \/ \E t \in TaskIds : ExecutionTimerFires(t)
    \/ \E t \in TaskIds : QueueTimerFires(t)
    \/ \E t \in TaskIds : RetryTimerFires(t)
    \/ \E t \in TaskIds, answer \in HookAnswerChoices, timeout \in HookTimeoutChoices :
        HookAnswers(t, answer, timeout)
    \/ SetUsedCapacity(0)
    \/ \E o \in SettleOptions : SetOptions(o)
    \/ \E params \in StopParams : Stop(params)
    \/ Tick

SpecSettle == InitWith(SettleOptions, InitiallyUsedChoices) /\ [][NextSettle]_vars

(***************************************************************************)
(* Dispatch order: three tasks of two priorities and two capacities, with  *)
(* and without a queueWaitingLimit, on a limiter of capacity 3 whose used  *)
(* capacity is also adjusted by hand.                                      *)
(***************************************************************************)
OrderOptions == { [NoOptions EXCEPT !.maxCapacity = 3] }

OrderParams == { NoParams, [NoParams EXCEPT !.queueWaitingLimit = 1] }

NextOrder ==
    \/ \E capacity \in CapacityChoices, priority \in PriorityChoices,
          params \in OrderParams : Schedule(capacity, priority, params)
    \/ \E t \in TaskIds : CallbackResolves(t)
    \/ \E diff \in DiffChoices : AdjustUsedCapacity(diff)
    \/ Tick

SpecOrder == InitWith(OrderOptions, {Undef}) /\ [][NextOrder]_vars

(***************************************************************************)
(* Queue overflow: a limiter of capacity 1, free or fully used at the      *)
(* start, with a queue of two places under each overflow strategy (and one *)
(* with maxQueueSize 0), three tasks of two priorities that are retried    *)
(* once when they fail.                                                    *)
(***************************************************************************)
OverflowOptions ==
    { [NoOptions EXCEPT !.maxCapacity = 1, !.maxQueueSize = size[1],
                        !.queueSizeExceededStrategy = size[2],
                        !.failRecoveryStrategy = StratRetryOnce] :
        size \in {1, 2} \X {"throw-error", "replace", "replace-by-priority"} }
    \cup { [NoOptions EXCEPT !.maxCapacity = 1, !.maxQueueSize = 0,
                             !.queueSizeExceededStrategy = "replace"] }

NextOverflow ==
    \/ \E priority \in PriorityChoices : Schedule(defaultCapacity, priority, NoParams)
    \/ \E t \in TaskIds : CallbackResolves(t)
    \/ \E t \in TaskIds : CallbackRejects(t)
    \/ \E t \in TaskIds : RetryTimerFires(t)
    \/ SetUsedCapacity(0)
    \/ Tick

SpecOverflow == InitWith(OverflowOptions, InitiallyUsedChoices) /\ [][NextOverflow]_vars

(***************************************************************************)
(* Execution and failure recovery: two tasks on a limiter of capacity 1    *)
(* that retries a failed task 0, 1 or 2 times or asks a custom hook, with  *)
(* and without an execution timeout, its executing tasks rejected by stop. *)
(***************************************************************************)
RetriesChoices == 0..2

ExecutionOptions ==
    { [NoOptions EXCEPT !.maxCapacity = 1,
                        !.failRecoveryStrategy =
                            Strategy("retry", retries, 1, Undef, 1, FALSE)] :
        retries \in RetriesChoices }
    \cup { [NoOptions EXCEPT !.maxCapacity = 1, !.failRecoveryStrategy = StratCustom] }

ExecutionParams ==
    { NoParams, [NoParams EXCEPT !.executionTimeout = 1] }

ExecutionStops ==
    { [stopWaitingTasks |-> FALSE, rejectExecutingTasks |-> TRUE,
       stopTaskRetries |-> FALSE] }

NextExecution ==
    \/ \E params \in ExecutionParams :
        nextId <= FewTasks /\ Schedule(defaultCapacity, defaultPriority, params)
    \/ \E t \in TaskIds : CallbackResolves(t)
    \/ \E t \in TaskIds : CallbackRejects(t)
    \/ \E t \in TaskIds : ExecutionTimerFires(t)
    \/ \E t \in TaskIds : LateOutcome(t)
    \/ \E t \in TaskIds : RetryTimerFires(t)
    \/ \E t \in TaskIds, answer \in HookAnswerChoices, timeout \in HookTimeoutChoices :
        HookAnswers(t, answer, timeout)
    \/ \E params \in ExecutionStops : Stop(params)
    \/ Tick

SpecExecution == InitWith(ExecutionOptions, {Undef}) /\ [][NextExecution]_vars

(***************************************************************************)
(* Stopping: three tasks on a limiter of capacity 1 that retries a failed  *)
(* task once, its used capacity reset by hand, stopped in every way.       *)
(***************************************************************************)
StopOptions ==
    { [NoOptions EXCEPT !.maxCapacity = 1, !.failRecoveryStrategy = StratRetryOnce] }

NextStop ==
    \/ Schedule(defaultCapacity, defaultPriority, NoParams)
    \/ \E t \in TaskIds : CallbackResolves(t)
    \/ \E t \in TaskIds : CallbackRejects(t)
    \/ \E t \in TaskIds : RetryTimerFires(t)
    \/ SetUsedCapacity(0)
    \/ \E params \in StopParams : Stop(params)
    \/ Tick

SpecStop == InitWith(StopOptions, InitiallyUsedChoices) /\ [][NextStop]_vars

(***************************************************************************)
(* Draining: the same limiter, stopped with the default parameters only.   *)
(***************************************************************************)
DefaultStop ==
    [stopWaitingTasks |-> FALSE, rejectExecutingTasks |-> FALSE, stopTaskRetries |-> FALSE]

NextDrain ==
    \/ Schedule(defaultCapacity, defaultPriority, NoParams)
    \/ \E t \in TaskIds : CallbackResolves(t)
    \/ \E t \in TaskIds : CallbackRejects(t)
    \/ \E t \in TaskIds : RetryTimerFires(t)
    \/ SetUsedCapacity(0)
    \/ Stop(DefaultStop)
    \/ Tick

SpecDrain == InitWith(StopOptions, InitiallyUsedChoices) /\ [][NextDrain]_vars

(***************************************************************************)
(* Tasks that exceed maxCapacity: every task asks for more than the        *)
(* limiter has, under wait-for-full-capacity; the used capacity is set by  *)
(* hand and maxCapacity reconfigured between 1 and 2.                      *)
(***************************************************************************)
ExceedingOptions ==
    { [NoOptions EXCEPT !.maxCapacity = max,
                        !.taskExceedsMaxCapacityStrategy = "wait-for-full-capacity"] :
        max \in {1, 2} }

ExceedingChoices == {3}

NextExceeding ==
    \/ \E capacity \in ExceedingChoices : Schedule(capacity, defaultPriority, NoParams)
    \/ \E t \in TaskIds : CallbackResolves(t)
    \/ \E n \in 0..2 : SetUsedCapacity(n)
    \/ \E o \in ExceedingOptions : SetOptions(o)

SpecExceeding == InitWith(ExceedingOptions, InitiallyUsedChoices) /\ [][NextExceeding]_vars

(***************************************************************************)
(* Claims.                                                                 *)
(***************************************************************************)
\* The step ends the execution of t: its callback resolved or rejected, or
\* its execution timer fired.
Finishes(t) == tasks[t].running /\ ~tasks'[t].running

\* usedCapacity and usedConcurrent as the step left them before its scheduler
\* loop dispatched anything.
BeforeDispatch(run, used) == IF run = <<>> THEN used ELSE run[1].usedCapacity
ConcurrentBeforeDispatch(run, used) == IF run = <<>> THEN used ELSE run[1].usedConcurrent

\* C1: when maxCapacity is defined, usedCapacity <= maxCapacity at every
\* quiescent point.
C1_UsedWithinMax ==
    options.maxCapacity # Undef => usedCapacity <= options.maxCapacity

\* C2: when maxConcurrent is defined, no more than maxConcurrent tasks
\* execute at the same time, and the loop dispatches nothing at a moment
\* when usedConcurrent >= maxConcurrent.
C2_ConcurrentWithinMax ==
    options.maxConcurrent # Undef
    => /\ Cardinality({t \in TaskIds : tasks[t].running}) <= options.maxConcurrent
       /\ \A i \in DOMAIN lastRun :
            lastRun[i].task # NoTask => lastRun[i].usedConcurrent < options.maxConcurrent

C4_NoLostTask ==
    \A t \in TaskIds :
        (t < nextId /\ tasks[t].promise = "pending") => ~Garbage(State, t)

C6_ClaimKeeps ==
    [][\A t \in TaskIds :
        (Finishes(t) /\ options.capacityStrategy = "claim")
        => BeforeDispatch(lastRun', usedCapacity') >= usedCapacity]_vars

\* C6 as amended: the end of the execution of a task that holds no
\* reservation leaves usedCapacity as it is, and usedCapacity decreases only
\* in a step that ends the execution of a task holding a reservation, fires
\* or catches up release rules, or is setUsedCapacity or adjustUsedCapacity.
RuleOrManualStep ==
    \/ \E r \in RuleIds : ruleStatus'[r].lastApplied # ruleStatus[r].lastApplied
    \/ \E n \in UsedChoices : SetUsedCapacity(n)
    \/ \E diff \in DiffChoices : AdjustUsedCapacity(diff)

C6_UnreservedKeeps ==
    [][/\ \A t \in TaskIds :
            (Finishes(t) /\ tasks[t].reservedCapacity = 0)
            => BeforeDispatch(lastRun', usedCapacity') = usedCapacity
       /\ usedCapacity' < usedCapacity
            => \/ \E t \in TaskIds : Finishes(t) /\ tasks[t].reservedCapacity > 0
               \/ RuleOrManualStep]_vars

\* C6, the case: under claim a task has finished and its capacity is still
\* counted as used.
C6_Witness ==
    /\ options.capacityStrategy = "claim"
    /\ usedCapacity = 2
    /\ \E t \in TaskIds : tasks[t].promise = "resolved"
    /\ \A t \in TaskIds : ~tasks[t].running

\* What a pass of the loop saw: whether task t fitted the free capacity,
\* whether its timeLimit had passed, the head of tasksByTimeLimit, and
\* whether the pass dispatched a task.
FitsAt(e, t) ==
    options.maxCapacity = Undef \/ e.usedCapacity + tasks[t].capacity <= options.maxCapacity

AgedNow(t) == tasks[t].timeLimit # Undef /\ tasks[t].timeLimit <= now

HeadSeen(e) == PeekFirst(e.tasksByTimeLimit)

Dispatch(e) == e.task # NoTask

\* a precedes b in queue order: ascending priority number, then admission.
Precedes(a, b) ==
    \/ tasks[a].priority < tasks[b].priority
    \/ tasks[a].priority = tasks[b].priority /\ a < b

\* C7: a pass that sees no aged pending task dispatches the first task in
\* queue order (ascending priority number, then admission order) that fits
\* the free capacity: every pending task that precedes it does not fit.
C7_FirstFitting ==
    \A i \in DOMAIN lastRun :
        LET e == lastRun[i]
        IN  (Dispatch(e) /\ \A t \in ListSet(e.queue) : ~AgedNow(t))
            => /\ e.task \in ListSet(e.queue)
               /\ FitsAt(e, e.task)
               /\ \A t \in ListSet(e.queue) :
                    Precedes(t, e.task) => ~FitsAt(e, t)
               /\ \A j, k \in DOMAIN e.queue :
                    j < k => Precedes(e.queue[j], e.queue[k])

\* C7, the case: with no aged task pending, the loop dispatched a task
\* while a task of a more urgent priority, which did not fit, stayed
\* pending.
C7_Witness ==
    \E i \in DOMAIN lastRun :
        LET e == lastRun[i]
        IN  /\ Dispatch(e)
            /\ \A t \in ListSet(e.queue) : ~AgedNow(t)
            /\ \E t \in ListSet(e.queue) :
                tasks[t].priority < tasks[e.task].priority /\ ~FitsAt(e, t)

\* C8 as claimed: of two tasks of equal priority, the one admitted at the
\* earlier time is dispatched first: when a task is dispatched, no task of
\* its priority admitted at a later time has been dispatched before it.
C8_FifoAmongEqual ==
    \A i \in DOMAIN lastRun :
        LET e == lastRun[i]
        IN  Dispatch(e)
            => \A b \in TaskIds :
                (/\ b < nextId
                 /\ tasks[b].running
                 /\ tasks[b].priority = tasks[e.task].priority
                 /\ tasks[e.task].timeAdded < tasks[b].timeAdded)
                => b \in ListSet(e.queue)

\* C8 as amended: a task is dispatched while a task of its priority admitted
\* before it is still pending only if the earlier task does not fit the free
\* capacity at that moment, or the dispatched task is the aged head of
\* tasksByTimeLimit.
C8_OvertakeOnlyUnfit ==
    \A i \in DOMAIN lastRun :
        LET e == lastRun[i]
        IN  Dispatch(e)
            => \A a \in ListSet(e.queue) :
                (a < e.task /\ tasks[a].priority = tasks[e.task].priority)
                => \/ ~FitsAt(e, a)
                   \/ HeadSeen(e) = e.task /\ AgedNow(e.task)

\* C8, the case: a task was dispatched past an earlier task of its priority
\* that did not fit.
C8_Witness ==
    \E i \in DOMAIN lastRun :
        LET e == lastRun[i]
        IN  /\ Dispatch(e)
            /\ \E a \in ListSet(e.queue) :
                /\ tasks[a].timeAdded < tasks[e.task].timeAdded
                /\ tasks[a].priority = tasks[e.task].priority
                /\ ~FitsAt(e, a)
                /\ ~AgedNow(e.task)

\* The pass returned because usedConcurrent had reached maxConcurrent.
AtConcurrencyLimit(e) ==
    Truthy(options.maxConcurrent) /\ e.usedConcurrent >= options.maxConcurrent

\* C9 as claimed, in its weakest reading: a pending task that is aged and
\* fits the free capacity is not kept waiting: a pass of the loop that finds
\* one dispatches it, or another aged task.
C9_AgedFirst ==
    \A i \in DOMAIN lastRun :
        LET e == lastRun[i]
        IN  \A a \in ListSet(e.queue) :
                (AgedNow(a) /\ FitsAt(e, a) /\ ~AtConcurrencyLimit(e))
                => Dispatch(e) /\ AgedNow(e.task)

\* C9 as amended: while any pending task is aged, the task the loop
\* dispatches is the head of tasksByTimeLimit, the pending task with the
\* earliest timeLimit, ahead of every other pending task whatever its
\* priority; the other aged tasks wait for it.
C9_EarliestAgedFirst ==
    \A i \in DOMAIN lastRun :
        LET e == lastRun[i]
        IN  Dispatch(e)
            => \A a \in ListSet(e.queue) :
                AgedNow(a)
                => /\ HeadSeen(e) # NoTask
                   /\ tasks[HeadSeen(e)].timeLimit <= tasks[a].timeLimit
                   /\ e.task = HeadSeen(e)
                   /\ FitsAt(e, e.task)

\* C9, the case: the aged head was dispatched while a task of a more urgent
\* priority that fitted was pending.
C9_Witness ==
    \E i \in DOMAIN lastRun :
        LET e == lastRun[i]
        IN  /\ Dispatch(e)
            /\ e.task = HeadSeen(e)
            /\ AgedNow(e.task)
            /\ \E t \in ListSet(e.queue) :
                tasks[t].priority < tasks[e.task].priority /\ FitsAt(e, t)

\* C10: a pass that finds the head of tasksByTimeLimit aged and not fitting
\* the free capacity dispatches nothing and ends the loop.
C10_AgedHeadBlocks ==
    \A i \in DOMAIN lastRun :
        LET e == lastRun[i]
        IN  (HeadSeen(e) # NoTask /\ AgedNow(HeadSeen(e)) /\ ~FitsAt(e, HeadSeen(e)))
            => ~Dispatch(e) /\ i = Len(lastRun)

\* C10, the case: the loop returned at an aged head that did not fit while a
\* task of a more urgent priority that fitted was pending.
C10_Witness ==
    \E i \in DOMAIN lastRun :
        LET e == lastRun[i]
        IN  /\ ~Dispatch(e)
            /\ HeadSeen(e) # NoTask /\ AgedNow(HeadSeen(e)) /\ ~FitsAt(e, HeadSeen(e))
            /\ \E t \in ListSet(e.queue) :
                tasks[t].priority < tasks[HeadSeen(e)].priority /\ FitsAt(e, t)

\* scheduleTask finds the queue full: maxQueueSize is set and reached, and
\* the limiter is not stopped.
QueueFull ==
    /\ stopped = "no"
    /\ Truthy(options.maxQueueSize)
    /\ Len(queue) >= options.maxQueueSize

\* The step is the first admission of task t by schedule.
Scheduling(t) == t = nextId /\ nextId' = nextId + 1

\* In the step task v left the pending indices settled with
\* queue-size-exceeded, without being executed.
Evicted(v) ==
    /\ tasks'[v].promise = "queue-size-exceeded"
    /\ ~Contains(queue', v)
    /\ ~Contains(tasksByTimeAdded', v)
    /\ ~Contains(tasksByTimeLimit', v)
    /\ ~tasks'[v].running

\* In the step task t entered the queue; the loop may have dispatched it
\* already.
Inserted(t) == Contains(queue', t) \/ tasks'[t].running

\* In the step task t was turned away with queue-size-exceeded and the
\* pending indices stayed as they were.
TurnedAway(t) ==
    /\ tasks'[t].promise = "queue-size-exceeded"
    /\ ~tasks'[t].running
    /\ queue' = queue
    /\ tasksByTimeAdded' = tasksByTimeAdded
    /\ tasksByTimeLimit' = tasksByTimeLimit

\* C11: under replace, an admission (by schedule or by a retry timer) that
\* finds the queue full evicts the head of tasksByTimeAdded, which is a
\* pending task and among first admissions the one admitted earliest,
\* settles it with queue-size-exceeded and inserts the newcomer; and a task
\* settled with queue-size-exceeded never executes afterwards.
C11_ReplaceOldest ==
    [][/\ \A t \in TaskIds :
            (/\ QueueFull
             /\ options.queueSizeExceededStrategy = "replace"
             /\ Scheduling(t) \/ RetryTimerFires(t))
            => LET v == PeekFirst(tasksByTimeAdded)
               IN  /\ Contains(queue, v)
                   /\ tasks[v].promise = "pending"
                   /\ \A u \in ListSet(queue) :
                        (tasks[u].retryAttempt = 0 /\ tasks[v].retryAttempt = 0)
                        => v <= u /\ tasks[v].timeAdded <= tasks[u].timeAdded
                   /\ Evicted(v)
                   /\ Inserted(t)
       /\ \A v \in TaskIds :
            tasks[v].promise = "queue-size-exceeded" => ~tasks'[v].running]_vars

\* C11, the case: under replace a task was evicted while a task admitted
\* after it, of a less urgent priority, stayed in the queue with the
\* newcomer.
C11_Witness ==
    /\ options.queueSizeExceededStrategy = "replace"
    /\ Len(queue) = 2
    /\ \E v \in TaskIds :
        /\ tasks[v].promise = "queue-size-exceeded"
        /\ \A u \in ListSet(queue) : v < u
        /\ \E u \in ListSet(queue) : tasks[u].priority = defaultPriority

C13_QueueWithinMax ==
    options.maxQueueSize # Undef => Len(queue) <= options.maxQueueSize

\* The task was dispatched at least once: its callback is in flight, or it
\* has failed and awaits its retry or its hook, or it was admitted again.
WasDispatched(t) ==
    tasks[t].running \/ tasks[t].retryAttempt > 0

\* C14: a task is settled with queue-timeout only by its queue waiting
\* timer, only when that timer is due (queueWaitingTimeout after the
\* admission) and the task is still pending in the queue; it then leaves all
\* pending indices and never executes.  A task that was dispatched holds no
\* queue waiting timer, also after its retry re-admission.
C14_QueueTimeout ==
    /\ [](\A t \in TaskIds :
            /\ WasDispatched(t) => tasks[t].queueWaitingTimerId = Undef
            /\ tasks[t].queueWaitingTimerId # Undef
                => tasks[t].queueWaitingTimerId =
                     tasks[t].timeAdded
                        + Coalesce(tasks[t].params.queueWaitingTimeout,
                                   options.queueWaitingTimeout))
    /\ [][\A t \in TaskIds :
            /\ (tasks[t].promise # "queue-timeout" /\ tasks'[t].promise = "queue-timeout")
                => /\ QueueTimerFires(t)
                   /\ tasks[t].promise = "pending"
                   /\ Contains(queue, t) /\ Contains(tasksByTimeAdded, t)
                   /\ ~WasDispatched(t)
                   /\ ~Contains(queue', t)
                   /\ ~Contains(tasksByTimeAdded', t)
                   /\ ~Contains(tasksByTimeLimit', t)
            /\ tasks[t].promise = "queue-timeout" => ~tasks'[t].running]_vars

\* C14, the case: a task timed out in the queue while a task that had been
\* dispatched and failed is pending again, its parameters asking for a queue
\* waiting timeout and no timer armed.
C14_Witness ==
    /\ \E t \in TaskIds : tasks[t].promise = "queue-timeout"
    /\ \E u \in TaskIds :
        /\ Contains(queue, u)
        /\ tasks[u].retryAttempt > 0
        /\ tasks[u].params.queueWaitingTimeout # Undef
        /\ tasks[u].queueWaitingTimerId = Undef

\* The dispatches among the loop passes of the latest action.
Dispatches(run) == {i \in DOMAIN run : run[i].task # NoTask}

\* C15: an execution ends in one step, which is the callback resolving, the
\* callback rejecting or the execution timer firing; that step takes the
\* task out of the executing set, cancels its execution timer and releases
\* its reservations once.  A task that is not executing holds no
\* reservation and no execution timer, and no step settles it with an
\* execution's outcome or counts a failure for it: an outcome that comes
\* after the first changes nothing.
C15_OneOutcome ==
    /\ [](\A t \in TaskIds :
            ~tasks[t].running
            => /\ t \notin executingTasks
               /\ tasks[t].reservedCapacity = 0
               /\ tasks[t].reservedConcurrent = 0
               /\ tasks[t].executionTimerId = Undef)
    /\ [][\A t \in TaskIds :
            /\ Finishes(t)
                => /\ CallbackResolves(t) \/ CallbackRejects(t) \/ ExecutionTimerFires(t)
                   /\ t \notin executingTasks'
                   /\ tasks'[t].reservedCapacity = 0
                   /\ tasks'[t].reservedConcurrent = 0
                   /\ tasks'[t].executionTimerId = Undef
                   /\ usedConcurrent' =
                        Max(0, usedConcurrent - tasks[t].reservedConcurrent)
                            + Cardinality(Dispatches(lastRun'))
            /\ ~tasks[t].running
                => /\ tasks'[t].promise \in {"resolved", "task-error", "execution-timeout"}
                        => tasks'[t].promise = tasks[t].promise
                   /\ tasks'[t].retryAttempt <= tasks[t].retryAttempt
            /\ LateOutcome(t) => UNCHANGED vars]_vars

\* C15, the case: the execution timer ended an execution, whose callback is
\* still to settle, and the capacity it released is taken by another task.
C15_Witness ==
    \E t, u \in TaskIds :
        /\ tasks[t].promise = "execution-timeout"
        /\ tasks[u].running
        /\ usedConcurrent = 1

\* C16: the execution timer firing on an executing, unsettled task settles
\* it with execution-timeout without consulting the fail-recovery strategy:
\* no failure is counted, no retry timer armed and no hook asked.
C16_TimeoutNotRetried ==
    [][\A t \in TaskIds :
        (/\ tasks[t].running
         /\ tasks[t].promise = "pending"
         /\ ExecutionTimerFires(t))
        => /\ tasks'[t].promise = "execution-timeout"
           /\ tasks'[t].retryAttempt <= tasks[t].retryAttempt
           /\ tasks'[t].retryTimer = Undef
           /\ tasks'[t].hook = "none"]_vars

\* C17: under a retry strategy with retries = n, every call of the callback
\* follows a failure of the call before it, so a callback that always fails
\* has been called once more than it has failed; its rejection arms a retry
\* while it was called fewer than n + 1 times and settles the task with the
\* callback's own error at call n + 1; a task settled so is never called
\* again.
C17_RetriesThenFails ==
    /\ [](\A t \in TaskIds :
            /\ tasks[t].invoked = tasks[t].retryAttempt + (IF tasks[t].running THEN 1 ELSE 0)
            /\ failRecoveryStrategy(State, t).type = "retry"
                => tasks[t].invoked
                     <= Coalesce(failRecoveryStrategy(State, t).retries,
                                 defaultRetriesLimit) + 1)
    /\ [][\A t \in TaskIds :
            /\ (/\ tasks[t].running
                /\ tasks[t].promise = "pending"
                /\ failRecoveryStrategy(State, t).type = "retry"
                /\ CallbackRejects(t))
                => IF tasks[t].invoked =
                        Coalesce(failRecoveryStrategy(State, t).retries,
                                 defaultRetriesLimit) + 1
                   THEN /\ tasks'[t].promise = "task-error"
                        /\ tasks'[t].retryTimer = Undef
                        /\ ~tasks'[t].running
                   ELSE /\ tasks'[t].promise = "pending"
                        /\ tasks'[t].retryTimer # Undef
                        /\ tasks'[t].retryAttempt = tasks[t].invoked
            /\ tasks[t].promise = "task-error" => ~tasks'[t].running]_vars

\* C17, the case: with retries = 2 a task was called three times and is
\* settled with its callback's error.
C17_Witness ==
    /\ options.failRecoveryStrategy.type = "retry"
    /\ options.failRecoveryStrategy.retries = 2
    /\ now = MaxTime
    /\ \E t \in TaskIds : tasks[t].promise = "task-error"

\* C18: once stop has been called the limiter stays stopped; a schedule call
\* made then settles its task with stopped and leaves the pending indices
\* and the executing set as they were; a task settled with stopped is in no
\* pending index, and is not executed once it is not executing.
C18_StoppedRejects ==
    /\ [](\A t \in TaskIds :
            tasks[t].promise = "stopped"
            => /\ ~Contains(queue, t)
               /\ ~Contains(tasksByTimeAdded, t)
               /\ ~Contains(tasksByTimeLimit, t))
    /\ [][/\ stopped # "no" => stopped' # "no"
          /\ (stopped # "no" /\ Scheduling(nextId))
                => /\ tasks'[nextId].promise = "stopped"
                   /\ ~tasks'[nextId].running
                   /\ tasks'[nextId].invoked = 0
                   /\ queue' = queue
                   /\ tasksByTimeAdded' = tasksByTimeAdded
                   /\ tasksByTimeLimit' = tasksByTimeLimit
                   /\ executingTasks' = executingTasks
          /\ \A t \in TaskIds :
                (tasks[t].promise = "stopped" /\ ~tasks[t].running)
                => ~tasks'[t].running]_vars

\* C18, the case: the limiter is stopped with a task left waiting in its
\* queue, and a task scheduled after that one is settled with stopped while
\* nothing executes.
C18_Witness ==
    /\ stopped # "no"
    /\ usedConcurrent = 0
    /\ \E t, u \in TaskIds :
        /\ u < t
        /\ tasks[t].promise = "stopped"
        /\ tasks[u].promise = "pending"
        /\ tasks[u].invoked = 0
        /\ Contains(queue, u)

\* C19: when the promise of stop() is fulfilled, no task that is executing,
\* awaiting its retry or queued is unsettled.  (No task is admitted after
\* stop, so such a task was there when stop was called.)
C19_StopAwaitsAll ==
    stopPromise.state = "fulfilled"
    => \A t \in TaskIds :
        tasks[t].promise = "pending"
        => /\ ~tasks[t].running
           /\ ~Contains(queue, t)
           /\ tasks[t].retryTimer = Undef

\* C20: a stop call with stopTaskRetries set, alone or with other flags,
\* cancels every pending retry timer and leaves each task that awaited its
\* retry settled with stopped.
C20_StopCancelsRetries ==
    [][\A params \in StopParams :
        (params.stopTaskRetries /\ Stop(params))
        => \A t \in TaskIds :
            tasks[t].retryTimer # Undef
            => /\ tasks'[t].retryTimer = Undef
               /\ tasks'[t].promise = (IF tasks[t].promise = "pending"
                                       THEN "stopped" ELSE tasks[t].promise)]_vars

\* C21: a stop call on a limiter that is already stopped changes nothing of
\* the scheduler: the pending indices, the executing set, the tasks with
\* their promises and timers, and the used capacity and concurrency stay as
\* they were.
C21_SecondStopNoOp ==
    [][\A params \in StopParams :
        (stopped # "no" /\ Stop(params))
        => UNCHANGED <<queue, tasksByTimeAdded, tasksByTimeLimit, executingTasks,
                       tasks, usedCapacity, usedConcurrent>>]_vars

\* C22: with stop() called with the default parameters only, no task that
\* was admitted is settled with stopped: only a schedule call made after
\* stop settles its own task so.
C22_AdmittedFinish ==
    [][\A t \in TaskIds :
        (tasks[t].promise = "pending" /\ tasks'[t].promise = "stopped")
        => Scheduling(t)]_vars

\* C23: a task that asked for more than maxCapacity (every task of
\* SpecExceeding) is dispatched only when usedCapacity is 0.
C23_OnlyWhenIdle ==
    [][\A i \in Dispatches(lastRun') : lastRun'[i].usedCapacity = 0]_vars

(***************************************************************************)
(* Release rules: a limiter of capacity 2 that never gives capacity back   *)
(* at a task's end (strategy claim), with the reduce rule alone or with    *)
(* both rules, so that only the rules' timers and catch-ups free capacity. *)
(***************************************************************************)
ReleaseOptions ==
    { [NoOptions EXCEPT !.maxCapacity = 2, !.capacityStrategy = "claim",
                        !.releaseRules = rules] : rules \in {<<2>>, <<1, 2>>} }

NextRelease ==
    \/ \E capacity \in CapacityChoices : Schedule(capacity, defaultPriority, NoParams)
    \/ \E t \in TaskIds : CallbackResolves(t)
    \/ \E r \in RuleIds : ReleaseTimerFires(r)
    \/ GetUsedCapacity
    \/ Tick

SpecRelease == InitWith(ReleaseOptions, {Undef}) /\ [][NextRelease]_vars

\* C24: a rule's timer firing sets usedCapacity to the rule's result for one
\* interval (reset: its value or 0; reduce: max(0, usedCapacity - value)) and
\* the scheduler loop runs from that value in the same step; a catch-up of
\* the reduce rule over n missed intervals sets max(0, usedCapacity -
\* value * n); after either, no task is left pending that fits.
C24_RuleFires ==
    [][LET RuleResult(r, n) ==
                IF RuleObjects[r].type = "reset"
                THEN IF RuleObjects[r].value = Undef THEN 0 ELSE RuleObjects[r].value
                ELSE IF usedCapacity - RuleObjects[r].value * n > 0
                     THEN usedCapacity - RuleObjects[r].value * n ELSE 0
           \* the usedCapacity the scheduler loop of this step started from
           LoopStartedFrom ==
                IF lastRun' = <<>> THEN usedCapacity' ELSE lastRun'[1].usedCapacity
           \* the intervals of rule r that passed while the timers were off
           IntervalsMissed(r) ==
                (now - ruleStatus[r].lastApplied) \div RuleObjects[r].interval
       IN  /\ \A r \in RuleIds :
                ReleaseTimerFires(r)
                => /\ LoopStartedFrom = RuleResult(r, 1)
                   /\ taskToExecute(State') = NoTask
           /\ (GetUsedCapacity /\ ~releaseRuleTimersEnabled /\ releaseTimers = <<2>>)
                => /\ usedCapacity' = RuleResult(2, IntervalsMissed(2))
                   /\ taskToExecute(State') = NoTask]_vars

\* The reduce rule's timer has fired at this moment with a task pending that
\* fits afterwards, and the loop of that step dispatched the task.
C24_Witness ==
    /\ lastRun # <<>>
    /\ lastRun[1].task \notin {NoTask, nextId - 1}
    /\ lastRun[1].usedCapacity < 2
    /\ now > 1
    /\ ruleStatus[2].lastApplied = now

(***************************************************************************)
(* minDelayBetweenTasks: a limiter of capacity 2, or without limits, that  *)
(* was constructed with a delay of 1 or 2 and is given tasks of capacity 1.*)
(***************************************************************************)
NextDelay ==
    \/ Schedule(defaultCapacity, defaultPriority, NoParams)
    \/ \E t \in TaskIds : CallbackResolves(t)
    \/ \E t \in TaskIds : CallbackRejects(t)
    \/ DelayTimerFires
    \/ Tick

SpecDelay ==
    /\ \E maxCapacity \in {Undef, 2}, delay \in {1, 2} :
            Is([Constructed([NoOptions EXCEPT !.maxCapacity = maxCapacity], Undef)
                    EXCEPT !.betweenTasks.minDelayBetweenTasks = delay])
    /\ [][NextDelay]_vars

NextMisuse ==
    \/ \E capacity \in {-1, 1, 3}, priority \in {-1, defaultPriority, maxPriority + 1} :
        Schedule(capacity, priority, NoParams)
    \/ \E t \in TaskIds : CallbackResolves(t)
    \/ Stop(DefaultStop)
    \/ Tick

SpecMisuse ==
    InitWith({[NoOptions EXCEPT !.maxCapacity = 1,
                                !.taskExceedsMaxCapacityStrategy = strategy] :
                    strategy \in {"unset", "wait-for-full-capacity"}},
             InitiallyUsedChoices)
        /\ [][NextMisuse]_vars

\* C26: a schedule call with a negative capacity or with a priority outside
\* 0..9 throws at its caller and changes nothing: no task is created,
\* settled, inserted, evicted or dispatched, and the counters and timers
\* stay as they were.
C26_MisuseThrows ==
    [][\A capacity \in {-1, 1, 3}, priority \in {-1, defaultPriority, maxPriority + 1} :
        ((capacity < 0 \/ priority < 0 \/ priority > maxPriority)
            /\ Schedule(capacity, priority, NoParams))
        => UNCHANGED vars]_vars

\* C27: the queue is ordered at every moment: of two entries the one in
\* front has the smaller or the same priority, and of two entries of the
\* same priority the one in front was put into the queue first (it is in
\* front in tasksByTimeAdded as well); a retried task counts from its
\* re-admission.
C27_QueueOrdered ==
    \A i, j \in 1..Len(queue) :
        i < j
        => /\ tasks[queue[i]].priority <= tasks[queue[j]].priority
           /\ tasks[queue[i]].priority = tasks[queue[j]].priority
                => /\ IndexOf(tasksByTimeAdded, queue[i]) > 0
                   /\ IndexOf(tasksByTimeAdded, queue[i])
                        < IndexOf(tasksByTimeAdded, queue[j])

\* Two tasks of the same priority are queued, the one behind being a task
\* scheduled earlier that failed and was admitted again for its retry.
C27_Witness ==
    \E i, j \in 1..Len(queue) :
        /\ i < j
        /\ tasks[queue[i]].priority = tasks[queue[j]].priority
        /\ tasks[queue[j]].retryAttempt > 0
        /\ queue[j] < queue[i]

\* C28: the three pending indices agree at every moment: queue and
\* tasksByTimeAdded hold the same tasks, each once; tasksByTimeLimit holds
\* exactly the queued tasks whose timeLimit is set; and every task an index
\* holds is pending: not in the executing set and not settled.
C28_IndicesAgree ==
    /\ ListSet(queue) = ListSet(tasksByTimeAdded)
    /\ Cardinality(ListSet(queue)) = Len(queue)
    /\ Len(tasksByTimeAdded) = Len(queue)
    /\ Cardinality(ListSet(tasksByTimeLimit)) = Len(tasksByTimeLimit)
    /\ \A t \in TaskIds :
        Contains(tasksByTimeLimit, t)
            <=> (Contains(queue, t) /\ tasks[t].timeLimit # Undef)
    /\ \A t \in ListSet(queue) \cup ListSet(tasksByTimeAdded) \cup ListSet(tasksByTimeLimit) :
        /\ t \notin executingTasks
        /\ tasks[t].promise = "pending"

\* A task that failed is queued again for its retry, with a timeLimit and so
\* in all three indices, after another task was evicted from the queue.
C28_Witness ==
    /\ Len(queue) = 1
    /\ tasksByTimeLimit = queue
    /\ tasksByTimeAdded = queue
    /\ \E t \in TaskIds : tasks[t].promise = "queue-size-exceeded"

\* C29: no task is at once in a pending index and in the executing set or
\* the retry timers, or in the executing set and the retry timers; and every
\* task whose promise is not settled is in one of the three: pending,
\* executing, or awaiting its retry (a task whose failure hook has not
\* answered yet is counted as awaiting its retry).
C29_OneOwner ==
    \A t \in TaskIds :
        LET pending == Contains(queue, t) \/ Contains(tasksByTimeAdded, t)
                            \/ Contains(tasksByTimeLimit, t)
            executing == t \in executingTasks
            awaiting == tasks[t].retryTimer # Undef \/ tasks[t].hook # "none"
        IN  /\ ~(pending /\ executing)
            /\ ~(pending /\ awaiting)
            /\ ~(executing /\ awaiting)
            /\ (t < nextId /\ tasks[t].promise = "pending")
                    => (pending \/ executing \/ awaiting)

\* C30: usedConcurrent is at every moment the number of tasks in the
\* executing set that hold a concurrency slot.
C30_ConcurrentCounted ==
    usedConcurrent
        = Cardinality({t \in executingTasks : tasks[t].reservedConcurrent > 0})

\* C31: a task evicted from a full queue (settled queue-size-exceeded) has
\* no queue waiting timer left that could fire after the eviction.
C31_VictimTimersCancelled ==
    \A t \in TaskIds :
        tasks[t].promise = "queue-size-exceeded" => tasks[t].queueWaitingTimerId = Undef

\* C32: a task with no queueWaitingLimit (every task of SpecOverflow) is
\* never treated as aged, re-admitted for a retry or not: when it is
\* dispatched, no pending task of a more urgent priority fits.
C32_NoLimitNeverAged ==
    \A i \in DOMAIN lastRun :
        LET e == lastRun[i]
        IN  Dispatch(e)
            => \A a \in ListSet(e.queue) :
                tasks[a].priority < tasks[e.task].priority => ~FitsAt(e, a)

(***************************************************************************)
(* Dormancy: a claiming limiter of capacity 2, free or used at the start,  *)
(* whose queue is empty most of the time, so that its rule timers sleep;   *)
(* the rules are a reset to 2 every 3 ms, with or without a reduce by 1    *)
(* every ms or every 2 ms, replaced by setOptions; the used capacity       *)
(* changes by the rules and by dispatches only; the clock runs to          *)
(* LateTime.                                                               *)
(***************************************************************************)
LateTime == 6

DormantOptions ==
    { [NoOptions EXCEPT !.maxCapacity = 2, !.capacityStrategy = "claim",
                        !.releaseRules = rules] :
        rules \in {<<3>>, <<3, 2>>, <<2>>, <<3, 4>>} }

TickLate ==
    /\ now < LateTime
    /\ ~TimersDue
    /\ Becomes([State EXCEPT !.now = @ + 1])

NextDormant ==
    \/ nextId <= FewTasks /\ Schedule(defaultCapacity, defaultPriority, NoParams)
    \/ \E t \in TaskIds : CallbackResolves(t)
    \/ GetUsedCapacity
    \/ \E o \in DormantOptions : SetOptions(o)
    \/ \E r \in RuleIds : ReleaseTimerFires(r)
    \/ TickLate

SpecDormant == InitWith(DormantOptions, {Undef, 1, 2}) /\ [][NextDormant]_vars

\* C33: on a catch-up (getUsedCapacity while the timers sleep) the reduce
\* rule, if it missed an interval, is applied
\* floor((catchUpTime - max(lastApplied, latestResetCatchUpTime)) / interval)
\* times if usedCapacity > 0, after the missed reset if there is one, and its
\* lastApplied is advanced to catchUpTime.
C33_ReduceCatchUp ==
    [][LET reduce == RuleObjects[2]
           reset == RuleObjects[3]
           catchUpTime ==
                now - ((now - ruleStatus[2].lastApplied) % reduce.interval)
           resetMissed ==
                /\ Contains(releaseTimers, 3)
                /\ now - ruleStatus[3].lastApplied >= reset.interval
           resetCatchUpTime ==
                now - ((now - ruleStatus[3].lastApplied) % reset.interval)
           afterReset == IF resetMissed THEN reset.value ELSE usedCapacity
           from == IF resetMissed /\ resetCatchUpTime > ruleStatus[2].lastApplied
                   THEN resetCatchUpTime ELSE ruleStatus[2].lastApplied
           times == (catchUpTime - from) \div reduce.interval
       IN  (/\ GetUsedCapacity
            /\ ~releaseRuleTimersEnabled
            /\ Contains(releaseTimers, 2)
            /\ now - ruleStatus[2].lastApplied >= reduce.interval)
           => /\ usedCapacity' = IF afterReset > 0 THEN Max(0, afterReset - times)
                                 ELSE afterReset
              /\ ruleStatus'[2].lastApplied = catchUpTime]_vars

(***************************************************************************)
(* Rule timers: a limiter of capacity 1 or 2 with one release rule, its    *)
(* tasks of capacity 1 or 2 with or without a queueWaitingTimeout,         *)
(* reconfigured by setOptions and stopped in every way.                    *)
(***************************************************************************)
TimersOptions ==
    { [NoOptions EXCEPT !.maxCapacity = maxCapacity, !.releaseRules = rules] :
        maxCapacity \in {1, 2}, rules \in {<<1>>, <<2>>} }

NextTimers ==
    \/ \E capacity \in CapacityChoices,
          params \in {NoParams, [NoParams EXCEPT !.queueWaitingTimeout = 1]} :
        nextId <= FewTasks /\ Schedule(capacity, defaultPriority, params)
    \/ \E t \in TaskIds : CallbackResolves(t)
    \/ \E t \in TaskIds : QueueTimerFires(t)
    \/ \E r \in RuleIds : ReleaseTimerFires(r)
    \/ \E o \in TimersOptions : SetOptions(o)
    \/ \E params \in StopParams : Stop(params)
    \/ Tick

SpecTimers == InitWith(TimersOptions, {Undef}) /\ [][NextTimers]_vars

\* C34: whenever the queue is empty, whatever emptied it, the release rule
\* timers are disabled and no rule timer is armed.
C34_EmptyQueueTimersOff ==
    queue = <<>>
    => /\ ~releaseRuleTimersEnabled
       /\ \A r \in RuleIds : ruleStatus[r].due = Undef

NextWork ==
    \/ \E capacity \in CapacityChoices,
          params \in {NoParams, [NoParams EXCEPT !.queueWaitingLimit = 1,
                                                 !.queueWaitingTimeout = 1]} :
        now < MaxTime /\ Schedule(capacity, defaultPriority, params)
    \/ \E t \in TaskIds : CallbackResolves(t)
    \/ \E t \in TaskIds : QueueTimerFires(t)
    \/ \E params \in StopParams : Stop(params)
    \/ Tick

SpecWork ==
    /\ InitWith({[NoOptions EXCEPT !.maxCapacity = 2]}, InitiallyUsedChoices)
    /\ [][NextWork]_vars

\* C36: work conservation: while usedConcurrent is below maxConcurrent, the
\* task the loop would select (the aged head if it fits, else the first
\* pending task that fits) is not left waiting after any event.
C36_WorkConserving ==
    (options.maxConcurrent = Undef \/ usedConcurrent < options.maxConcurrent)
    => taskToExecute(State) = NoTask

\* C37: while a task is pending and release rules are configured, the rule
\* timers are enabled and every configured rule has its timer armed, also
\* after setOptions replaced the rules and after stop.
C37_PendingTimersOn ==
    (queue # <<>> /\ releaseTimers # <<>>)
    => /\ releaseRuleTimersEnabled
       /\ \A r \in ListSet(releaseTimers) : ruleStatus[r].due # Undef

\* A stopped limiter holds a task that was pending when setOptions replaced
\* the rule: rule 1 was installed off the grid of the construction time,
\* after the task was added, and is armed.
C37_Witness ==
    /\ queue # <<>>
    /\ stopped # "no"
    /\ releaseTimers = <<1>>
    /\ ruleStatus[1].lastApplied % RuleObjects[1].interval = 0
    /\ tasks[Head(queue)].timeAdded < ruleStatus[1].lastApplied
    /\ releaseRuleTimersEnabled
    /\ ruleStatus[1].due # Undef

\* C38: the promise stop returned completes in the end, whatever the stop
\* parameters, when timers fire and task callbacks terminate: once the
\* queue is empty, no task executes and no timer is armed, the promise is
\* not pending any more.
C38_StopCompletes ==
    (/\ queue = <<>>
     /\ \A t \in TaskIds :
        /\ ~tasks[t].running
        /\ tasks[t].executionTimerId = Undef
        /\ tasks[t].queueWaitingTimerId = Undef
        /\ tasks[t].retryTimer = Undef)
    => stopPromise.state # "pending"

\* C39: a catch-up after dormancy (getUsedCapacity while the timers sleep)
\* leaves the usedCapacity that the rule timers would have left, had they
\* stayed on and fired at lastApplied + k * interval: the value of the last
\* reset that fell due, if any, less the reduce firings after it (a reduce
\* due in the same millisecond as that reset fires before or after it), and
\* each rule's lastApplied is its last firing time on that grid.  The
\* limiters of SpecDormant have at most one reset and one reduce rule.
C39_CatchUpAsTimers ==
    [][LET installed == ListSet(releaseTimers)
           Firings(r, after) ==
                {at \in (after + 1)..now :
                    /\ at > ruleStatus[r].lastApplied
                    /\ (at - ruleStatus[r].lastApplied) % RuleObjects[r].interval = 0}
           resets == {r \in installed : /\ RuleObjects[r].type = "reset"
                                        /\ Firings(r, 0) # {}}
           reduces == {r \in installed : RuleObjects[r].type = "reduce"}
           Reduced(from, after) ==
                IF reduces = {} THEN from
                ELSE LET r == CHOOSE r \in reduces : TRUE
                     IN  Max(0, from - RuleObjects[r].value * Cardinality(Firings(r, after)))
           live ==
                IF resets = {} THEN {Reduced(usedCapacity, 0)}
                ELSE LET r == CHOOSE r \in resets : TRUE
                         at == CHOOSE at \in Firings(r, 0) :
                                    \A other \in Firings(r, 0) : other <= at
                         value == Coalesce(RuleObjects[r].value, 0)
                     IN  {Reduced(value, at), Reduced(value, at - 1)}
       IN  (GetUsedCapacity /\ ~releaseRuleTimersEnabled)
           => /\ usedCapacity' \in live
              /\ \A r \in installed :
                    /\ ruleStatus'[r].lastApplied >= ruleStatus[r].lastApplied
                    /\ (ruleStatus'[r].lastApplied - ruleStatus[r].lastApplied)
                            % RuleObjects[r].interval = 0
                    /\ now - ruleStatus'[r].lastApplied < RuleObjects[r].interval]_vars

\* C40: an invocation of the loop ends: every pass but the last dispatches
\* a task and leaves the queue one task shorter for the next pass, nothing
\* is added to the queue between passes, and so the dispatches of one
\* invocation are at most the tasks pending when it started.
C40_LoopTerminates ==
    lastRun # <<>>
    => /\ Cardinality(Dispatches(lastRun)) <= Len(lastRun[1].queue)
       /\ \A i \in 1..(Len(lastRun) - 1) :
            /\ Dispatch(lastRun[i])
            /\ Len(lastRun[i + 1].queue) = Len(lastRun[i].queue) - 1
            /\ ListSet(lastRun[i + 1].queue) = ListSet(lastRun[i].queue) \ {lastRun[i].task}

\* One invocation dispatched two tasks, all that were pending when it started.
C40_Witness ==
    /\ Len(lastRun) = 2
    /\ Cardinality(Dispatches(lastRun)) = 2
    /\ Len(lastRun[1].queue) = 2
    /\ queue = <<>>

====
